---------------------------- MODULE Spec2Model ----------------------------
(***************************************************************************)
(* A model of the Ash desktop robot (src/src/main.py and its               *)
(* collaborators): the orchestration loop AshRobot.run /                   *)
(* startup_sequence / interaction_loop / shutdown_sequence, the            *)
(* collaborators' failure behaviour as the loop sees it, and the gesture   *)
(* classifier _analyze_gesture_from_input.                                 *)
(*                                                                         *)
(* Text is modelled as a sequence of one-character strings, so that        *)
(* lower(), strip(), "in" and startswith() are computed, not assumed.      *)
(***************************************************************************)
EXTENDS Integers, Sequences, FiniteSets, TLC

VARIABLES
    \* ---- configuration fixed at construction -------------------------------
    force_text_mode,        \* AshRobot.force_text_mode        (main.py:49)
    microphone_available,   \* AudioIO.microphone_available    (audio_io.py:57-100)
    servo_hw,               \* ServoController.left_servo/right_servo/pca are not None
    display_backend,        \* FaceDisplay: "hardware" (framebuffer or SPI) | "window"
    \* ---- AshRobot.run control state ----------------------------------------
    pc,                     \* position in run()/startup/loop/shutdown
    running,                \* AshRobot.running
    use_voice,              \* local use_voice of interaction_loop
    user_input,             \* local user_input (text)
    gesture_name,           \* local gesture_name ("None" for (None, None))
    response,               \* local response
    demo_i,                 \* index of the gesture _demo_gestures is at
    spk_ret,                \* where the AudioIO.speak call in progress returns to
    \* ---- collaborators -------------------------------------------------------
    left_position,          \* ServoController.left_position
    right_position,         \* ServoController.right_position
    current_expression,     \* FaceDisplay.current_expression ("None" for None)
    closed,                 \* collaborators closed so far, in closing order
    use_after_close,        \* a collaborator was called after its close()
    \* ---- observation (history) ----------------------------------------------
    log,                    \* calls and events of this iteration (of startup, of shutdown)
    sigints,                \* SIGINTs delivered so far
    sig_in_turn,            \* a SIGINT was delivered during startup or a turn
    loop_exit,              \* why interaction_loop was left
    listen_called,          \* AudioIO.listen has been called
    shutdown_runs,          \* number of times shutdown_sequence was entered
    \* ---- the gesture classifier on its own ----------------------------------
    g_input,                \* argument of _analyze_gesture_from_input
    g_result,               \* its result, "pending" before the call
    \* ---- display_image's data path on its own ------------------------------
    frame_pc,               \* "idle" | "image" | "packed" | "sent"
    rgb_array,              \* np.array(image): rows of columns of <<r, g, b>>
    byte_data,              \* byte_data of display_image
    transfers,              \* the lists handed to spi.xfer2 by the chunk loop
    \* ---- host of the LCD driver (lcd_spi_driver.py) ------------------------
    gpiod_importable,       \* `import gpiod` succeeds
    rpigpio_importable,     \* `import RPi.GPIO` succeeds
    chip_openable,          \* some gpiod.Chip(...) of __init__ opens
    lines_free,             \* the three line requests succeed
    rpigpio_usable,         \* GPIO.setmode / GPIO.setup succeed
    spi_openable,           \* spi.open(bus, device) succeeds
    spi_faulty,             \* spi.xfer2 may raise
    sleep_jitter,           \* ms by which time.sleep oversleeps in this run
    \* ---- ILI9486SPI -------------------------------------------------------
    lcd_width,              \* self.width
    lcd_height,             \* self.height
    rotation,               \* self.rotation
    lcd_pc,                 \* position in __init__/_init_display, then "on" | "failed"
    lines_held,             \* dc/rst/bl lines requested (or set up) and not released
    spi_is_open,            \* self.spi is open
    dc,                     \* level last written to the DC line
    rst,                    \* level last written to the RESET line
    bl,                     \* level last written to the BACKLIGHT line
    \* ---- what reached the panel, and the calls made ------------------------
    clock,                  \* ms elapsed since construction began
    init_wire,              \* spi.xfer2 calls and RESET writes of construction
    wire,                   \* spi.xfer2 calls of the latest call
    last_call,              \* the latest call on the driver and how it ended
    close_calls,            \* close() calls that returned
    io_after_close,         \* a transfer or a line write happened after close()
    fd_pc,                  \* FaceDisplay: "init" | "idle" | "closing" | "closed"
    has_framebuffer,        \* FaceDisplay.has_framebuffer: os.path.exists(fb_path)
    image_cache,            \* FaceDisplay.image_cache: the expressions loaded
    fd_ret                  \* the latest FaceDisplay call and how it ended

cfgVars  == <<force_text_mode, microphone_available, servo_hw, display_backend>>
ctlVars  == <<pc, running, use_voice, user_input, gesture_name, response,
              demo_i, spk_ret>>
devVars  == <<left_position, right_position, current_expression, closed,
              use_after_close>>
obsVars  == <<log, sigints, sig_in_turn, loop_exit, listen_called, shutdown_runs>>
gestVars == <<g_input, g_result>>
frameVars == <<frame_pc, rgb_array, byte_data, transfers>>
hostVars == <<gpiod_importable, rpigpio_importable, chip_openable, lines_free,
              rpigpio_usable, spi_openable, spi_faulty, sleep_jitter>>
argVars  == <<lcd_width, lcd_height, rotation>>
pinVars  == <<lines_held, spi_is_open, dc, rst, bl>>
lcdObsVars == <<clock, init_wire, wire, last_call, close_calls,
                io_after_close>>
faceVars == <<current_expression, image_cache, fd_ret>>
lcdVars  == <<hostVars, argVars, lcd_pc, pinVars, lcdObsVars, fd_pc, has_framebuffer,
              image_cache, fd_ret>>
robotVars == <<cfgVars, ctlVars, devVars, obsVars>>
vars     == <<robotVars, gestVars, frameVars, lcdVars>>

---------------------------------------------------------------------------
(* Bounds of the model.                                                    *)

\* SIGINTs delivered in one run.
MaxSigints == 1

\* Longest text enumerated exhaustively for the gesture classifier.
MaxInputLen == 5

\* how far outside 0..180 a requested angle lies
MaxOvershoot == 20

\* the most repetitions asked of wave
MaxRepetitions == 2

---------------------------------------------------------------------------
(* Text helpers: str.lower(), str.strip(), "w in text", text.startswith(w) *)

Range(s) == { s[i] : i \in DOMAIN s }

ToLower ==
    ("A" :> "a") @@ ("B" :> "b") @@ ("C" :> "c") @@ ("D" :> "d") @@
    ("E" :> "e") @@ ("F" :> "f") @@ ("G" :> "g") @@ ("H" :> "h") @@
    ("I" :> "i") @@ ("J" :> "j") @@ ("K" :> "k") @@ ("L" :> "l") @@
    ("M" :> "m") @@ ("N" :> "n") @@ ("O" :> "o") @@ ("P" :> "p") @@
    ("Q" :> "q") @@ ("R" :> "r") @@ ("S" :> "s") @@ ("T" :> "t") @@
    ("U" :> "u") @@ ("V" :> "v") @@ ("W" :> "w") @@ ("X" :> "x") @@
    ("Y" :> "y") @@ ("Z" :> "z")

\* str.lower()
Lower(s) == [i \in DOMAIN s |-> IF s[i] \in DOMAIN ToLower THEN ToLower[s[i]] ELSE s[i]]

Whitespace == {" ", "\t", "\n"}

RECURSIVE LStrip(_)
LStrip(s) == IF s # <<>> /\ Head(s) \in Whitespace THEN LStrip(Tail(s)) ELSE s

RECURSIVE RStrip(_)
RStrip(s) ==
    IF s # <<>> /\ s[Len(s)] \in Whitespace THEN RStrip(SubSeq(s, 1, Len(s) - 1)) ELSE s

\* str.strip()
Strip(s) == RStrip(LStrip(s))

\* text.startswith(w)
StartsWith(text, w) == Len(w) <= Len(text) /\ SubSeq(text, 1, Len(w)) = w

\* w in text  (substring search)
Contains(text, w) ==
    \E i \in 1..(Len(text) - Len(w) + 1) : SubSeq(text, i, i + Len(w) - 1) = w

---------------------------------------------------------------------------
(* AshRobot._analyze_gesture_from_input                     (main.py:112-141) *)

greeting_words ==
    { <<"h","e","l","l","o">>,
      <<"h","i">>,
      <<"h","e","y">>,
      <<"g","r","e","e","t">>,
      <<"w","a","v","e">>,
      <<"s","a","y"," ","h","e","l","l","o">>,
      <<"s","a","y"," ","h","i">> }

celebration_words ==
    { <<"y","a","y">>,
      <<"a","w","e","s","o","m","e">>,
      <<"g","r","e","a","t">>,
      <<"c","e","l","e","b","r","a","t","e">>,
      <<"c","o","n","g","r","a","t","u","l","a","t","i","o","n","s">>,
      <<"c","o","n","g","r","a","t","s">>,
      <<"h","o","o","r","a","y">>,
      <<"e","x","c","e","l","l","e","n","t">>,
      <<"a","m","a","z","i","n","g">>,
      <<"f","a","n","t","a","s","t","i","c">> }

question_words ==
    { <<"w","h","a","t">>,
      <<"w","h","y">>,
      <<"h","o","w">>,
      <<"w","h","e","n">>,
      <<"w","h","e","r","e">>,
      <<"w","h","o">>,
      <<"e","x","p","l","a","i","n">>,
      <<"t","e","l","l"," ","m","e">> }

\* Plausible slip: the question check is made before the keyword checks.
analyze_question_first(input_text) ==
    LET text == Lower(input_text) IN
    IF (\E word \in question_words : StartsWith(text, word)) \/ Contains(text, <<"?">>)
    THEN "Point"
    ELSE IF \E word \in greeting_words : Contains(text, word) THEN "Wave"
    ELSE IF \E word \in celebration_words : Contains(text, word) THEN "Arms Up"
    ELSE "None"

\* The gesture_name of the returned pair; "None" stands for (None, None).
analyze_gesture_from_input(input_text) ==
    LET text == Lower(input_text) IN
    IF \E word \in greeting_words : Contains(text, word) THEN "Wave"
    ELSE IF \E word \in celebration_words : Contains(text, word) THEN "Arms Up"
    ELSE IF (\E word \in question_words : StartsWith(text, word))
            \/ Contains(text, <<"?">>)
    THEN "Point"
    ELSE "None"

---------------------------------------------------------------------------
(* ServoController                                          (gestures.py)   *)

\* config['servos']['angles'] (gestures.py:54); the values are those the
\* gesture docstrings give (neutral 90, arms up 45, arms down 135, point 45);
\* the wave angles are configuration only.
angles ==
    [ neutral |-> 90, arms_up |-> 45, arms_down |-> 135, point_up |-> 45,
      wave_start |-> 60, wave_end |-> 120 ]

\* Plausible slip: the requested angle is used as it comes.
ClampAngleMissing(angle) == angle

\* set_arm_angle: "Clamp angle to safe range"
ClampAngle(angle) == IF angle < 0 THEN 0 ELSE IF angle > 180 THEN 180 ELSE angle

RECURSIVE WaveStrokes(_)
WaveStrokes(repetitions) ==
    IF repetitions <= 0 THEN <<>>
    ELSE << <<"left", angles.wave_start>>, <<"left", angles.wave_end>> >>
         \o WaveStrokes(repetitions - 1)

\* The set_arm_angle calls a gesture makes, in order.
GestureMoves(gesture) ==
    CASE gesture = "neutral"   -> << <<"left", angles.neutral>>, <<"right", angles.neutral>> >>
      [] gesture = "reset"     -> << <<"left", angles.neutral>>, <<"right", angles.neutral>> >>
      [] gesture = "arms_up"   -> << <<"left", angles.arms_up>>, <<"right", angles.arms_up>> >>
      [] gesture = "arms_down" -> << <<"left", angles.arms_down>>, <<"right", angles.arms_down>> >>
      [] gesture = "point"     -> << <<"left", angles.arms_down>>, <<"right", angles.point_up>> >>
      [] gesture = "wave2"     -> << <<"right", angles.neutral>> >> \o WaveStrokes(2)
                                  \o << <<"left", angles.neutral>> >>
      [] gesture = "wave"      -> << <<"right", angles.neutral>> >> \o WaveStrokes(3)
                                  \o << <<"left", angles.neutral>> >>

\* Positions <<left, right>> after the first k set_arm_angle calls of moves.
RECURSIVE AfterMoves(_, _, _)
AfterMoves(pos, moves, k) ==
    IF k = 0 THEN pos
    ELSE LET m == Head(moves)
             a == ClampAngle(m[2])
         IN  AfterMoves(IF m[1] = "left" THEN <<a, pos[2]>>
                        ELSE IF m[1] = "right" THEN <<pos[1], a>>
                        ELSE pos,
                        Tail(moves), k - 1)

\* How many set_arm_angle calls of a gesture can complete: all of them, or,
\* with real servos, any number before a write `servo_obj.angle = angle`
\* raises (_move_servo_smooth has no try/except; simulation only prints).
ServoOutcomes(moves) == IF servo_hw THEN 0..Len(moves) ELSE {Len(moves)}

---------------------------------------------------------------------------
(* Program positions                                                       *)

StartupPcs ==
    {"st_face_startup", "st_neutral", "st_face_happy", "st_wave", "st_speak",
     "lp_enter"}

\* the try body of interaction_loop
TryPcs ==
    {"lp_face_listening", "lp_neutral", "lp_input", "lp_dispatch",
     "q_face_happy", "q_speak", "q_break",
     "dm_face", "dm_gesture", "dm_end_face", "dm_end_neutral",
     "lp_face_thinking", "lp_point", "lp_ask", "lp_face_speaking", "lp_gesture",
     "lp_speak", "lp_face_happy", "lp_final_gesture", "lp_cooldown"}

\* the `except Exception` body of interaction_loop
HandlerPcs == {"er_face", "er_speak", "er_sleep"}

LoopPcs == TryPcs \cup HandlerPcs

ShutdownPcs ==
    {"sd_face", "sd_speak", "sd_reset", "sd_clear",
     "sd_servos_close", "sd_audio_close", "sd_display_close"}

SpeakPcs == {"spk_play", "spk_unlink"}

EndPcs == {"done", "aborted"}

\* The part of run() a position belongs to; inside AudioIO.speak it is the
\* caller's.
RegionOf(p) ==
    IF p \in StartupPcs THEN "startup"
    ELSE IF p \in TryPcs THEN "try"
    ELSE IF p \in HandlerPcs THEN "handler"
    ELSE IF p \in ShutdownPcs THEN "shutdown"
    ELSE "end"

Region == IF pc \in SpeakPcs THEN RegionOf(spk_ret) ELSE RegionOf(pc)

Face(e)  == <<"face", e>>
Servo(g) == <<"servo", g>>
Ev(n)    == <<"ev", n>>

---------------------------------------------------------------------------
(* Texts                                                                   *)

\* Inputs offered to the loop: what the console line or the recogniser
\* yields ("", " ", " Bye ", "STOP", "text", " Voice ", "demo", "hi", "yay",
\* "why", "ok").
LoopInputs ==
    { <<>>,
      <<" ">>,
      <<" ","B","y","e"," ">>,
      <<"S","T","O","P">>,
      <<"t","e","x","t">>,
      <<" ","V","o","i","c","e"," ">>,
      <<"d","e","m","o">>,
      <<"h","i">>,
      <<"y","a","y">>,
      <<"w","h","y">>,
      <<"o","k">> }

quit_commands ==
    { <<"q","u","i","t">>,
      <<"e","x","i","t">>,
      <<"b","y","e">>,
      <<"g","o","o","d","b","y","e">>,
      <<"s","t","o","p">> }

demo_commands ==
    { <<"g","e","s","t","u","r","e","s">>,
      <<"d","e","m","o">>,
      <<"s","h","o","w"," ","g","e","s","t","u","r","e","s">>,
      <<"t","e","s","t"," ","g","e","s","t","u","r","e","s">>,
      <<"d","e","m","o"," ","g","e","s","t","u","r","e","s">> }

CmdText  == <<"t","e","x","t">>
CmdVoice == <<"v","o","i","c","e">>

\* LLMClient.ask's reply when the model call fails (llm_client.py:86)
SorryReply == "Sorry, I had trouble thinking of a response."
\* any model answer; "" is an answer that strips to nothing
ModelReplies == {"It is sunny.", ""}

HelloText   == "Hello! I am Ash. I am ready to assist you."
FarewellText == "Goodbye! Have a great day!"
GoodbyeText == "Goodbye!"
ErrorText   == "Sorry, I encountered an error."

\* _demo_gestures: (gesture, face) in order
DemoList ==
    << <<"neutral", "neutral">>, <<"arms_up", "happy">>, <<"arms_down", "neutral">>,
       <<"point", "thinking">>, <<"wave", "happy">> >>

\* config['main']['startup_expression'] ("Start with neutral expression")
startup_expression == "neutral"

\* The branch of the if-chain of interaction_loop an input takes, in the
\* order the code tests them.
\* Plausible slip: the quit and demo commands are tested before the mode
\* commands and the mode commands are compared unstripped.
DispatchUnstripped(input_text) ==
    LET user_input_lower == Lower(input_text) IN
    IF input_text = <<>> \/ Strip(input_text) = <<>> THEN "empty"
    ELSE IF Strip(user_input_lower) \in quit_commands THEN "quit"
    ELSE IF user_input_lower = CmdText THEN "text"
    ELSE IF user_input_lower = CmdVoice THEN "voice"
    ELSE IF Strip(user_input_lower) \in demo_commands THEN "demo"
    ELSE "turn"

\* Plausible slip: the exit phrases are compared before trimming.
DispatchQuitUnstripped(input_text) ==
    LET user_input_lower == Strip(Lower(input_text)) IN
    IF input_text = <<>> \/ Strip(input_text) = <<>> THEN "empty"
    ELSE IF user_input_lower = CmdText THEN "text"
    ELSE IF user_input_lower = CmdVoice THEN "voice"
    ELSE IF Lower(input_text) \in quit_commands THEN "quit"
    ELSE IF user_input_lower \in demo_commands THEN "demo"
    ELSE "turn"

\* Plausible slip: only the empty string is taken as no input.
DispatchEmptyOnly(input_text) ==
    LET user_input_lower == Strip(Lower(input_text)) IN
    IF input_text = <<>> THEN "empty"
    ELSE IF user_input_lower = CmdText THEN "text"
    ELSE IF user_input_lower = CmdVoice THEN "voice"
    ELSE IF user_input_lower \in quit_commands THEN "quit"
    ELSE IF user_input_lower \in demo_commands THEN "demo"
    ELSE "turn"

Dispatch(input_text) ==
    LET user_input_lower == Strip(Lower(input_text)) IN
    IF input_text = <<>> \/ Strip(input_text) = <<>> THEN "empty"
    ELSE IF user_input_lower = CmdText THEN "text"
    ELSE IF user_input_lower = CmdVoice THEN "voice"
    ELSE IF user_input_lower \in quit_commands THEN "quit"
    ELSE IF user_input_lower \in demo_commands THEN "demo"
    ELSE "turn"

---------------------------------------------------------------------------
(* Control transfer                                                        *)

\* A step that completes and goes on to position next, logging evs.
Step(evs, next) ==
    /\ pc' = next
    /\ log' = log \o evs
    /\ UNCHANGED <<loop_exit, shutdown_runs>>

\* run()'s `finally: self.shutdown_sequence()`
EnterShutdown(evs) ==
    /\ pc' = "sd_face"
    /\ log' = <<Ev("shutdown_sequence")>>
    /\ shutdown_runs' = shutdown_runs + 1

\* An exception of class exc ("Exception" or "SystemExit") raised at the
\* current position, after evs: interaction_loop's `except Exception`
\* catches an Exception raised in its try body; everything else leaves
\* interaction_loop and reaches run()'s finally; raised inside
\* shutdown_sequence it ends the process with the sequence unfinished.
Raise(exc, evs) ==
    IF Region = "try" /\ exc = "Exception"
    THEN /\ pc' = "er_face"
         /\ log' = log \o evs \o <<Ev(exc)>>
         /\ UNCHANGED <<loop_exit, shutdown_runs>>
    ELSE IF Region \in {"try", "handler"}
    THEN /\ loop_exit' = exc
         /\ EnterShutdown(evs \o <<Ev(exc)>>)
    ELSE IF Region = "startup"
    THEN /\ UNCHANGED loop_exit
         /\ EnterShutdown(evs \o <<Ev(exc)>>)
    ELSE /\ pc' = "aborted"
         /\ log' = log \o evs \o <<Ev(exc)>>
         /\ UNCHANGED <<loop_exit, shutdown_runs>>

Used(collaborator) == use_after_close' = (use_after_close \/ collaborator \in Range(closed))

---------------------------------------------------------------------------
(* Collaborator calls as the orchestration loop sees them                  *)

\* FaceDisplay.set_expression(e): the new current_expression.  ok is
\* whether the call returns True: it returns False, leaving
\* current_expression alone, when the image is not loaded or the
\* framebuffer/SPI write fails; no path raises.
set_expression(e, ok) == IF ok THEN e ELSE current_expression

\* A position that calls display.set_expression(e) and goes on to next.
FaceCall(e, next) ==
    /\ \E ok \in BOOLEAN : current_expression' = set_expression(e, ok)
    /\ Used("display")
    /\ Step(<<Face(e)>>, next)
    /\ UNCHANGED <<left_position, right_position, closed>>

\* A position that calls the servo gesture g and goes on to next; a servo
\* write that raises leaves the positions of the moves completed so far.
ServoCall(g, next) ==
    /\ \E k \in ServoOutcomes(GestureMoves(g)) :
          LET pos == AfterMoves(<<left_position, right_position>>, GestureMoves(g), k) IN
          /\ left_position' = pos[1]
          /\ right_position' = pos[2]
          /\ IF k = Len(GestureMoves(g))
             THEN Step(<<Servo(g)>>, next)
             ELSE Raise("Exception", <<Servo(g), Ev("servo_write_failed")>>)
    /\ Used("servos")
    /\ UNCHANGED <<current_expression, closed>>

\* A position that calls audio.speak(text) and continues at next: empty
\* text returns False at once, otherwise playback starts.
SpeakCall(text, next) ==
    /\ Used("audio")
    /\ IF text = ""
       THEN /\ Step(<<<<"speak", text>>, <<"speak_ret", "False">>>>, next)
            /\ UNCHANGED spk_ret
       ELSE /\ spk_ret' = next
            /\ Step(<<<<"speak", text>>>>, "spk_play")
    /\ UNCHANGED <<left_position, right_position, current_expression, closed>>

\* Plausible slip: speak has no try/except and the failure propagates.
TtsFailureRaises ==
    /\ Raise("Exception", <<Ev("tts_failed")>>)
    /\ spk_ret' = "none"

\* AudioIO.speak, `except Exception: return False`
TtsFailure ==
    /\ Step(<<Ev("tts_failed"), <<"speak_ret", "False">>>>, spk_ret)
    /\ spk_ret' = "none"

\* AudioIO.speak from gTTS to the end of playback
SpeakPlay ==
    /\ pc = "spk_play"
    /\ \/ /\ Step(<<>>, "spk_unlink")
          /\ UNCHANGED spk_ret
       \/ TtsFailure
    /\ UNCHANGED <<cfgVars, running, use_voice, user_input, gesture_name, response,
                   demo_i, devVars, sigints, sig_in_turn, listen_called, gestVars, frameVars, lcdVars>>

\* AudioIO.speak, `try: os.unlink(temp_file) except: pass`, then return True
SpeakUnlink ==
    /\ pc = "spk_unlink"
    /\ Step(<<<<"speak_ret", "True">>>>, spk_ret)
    /\ spk_ret' = "none"
    /\ UNCHANGED <<cfgVars, running, use_voice, user_input, gesture_name, response,
                   demo_i, devVars, sigints, sig_in_turn, listen_called, gestVars, frameVars, lcdVars>>

\* Plausible slip: ask has no try/except and the failure propagates.
AskFailureRaises ==
    /\ Raise("Exception", <<Ev("ask"), Ev("model_call_failed")>>)
    /\ UNCHANGED response

\* LLMClient.ask, `except Exception: return "Sorry, I had trouble ..."`
AskFailure ==
    /\ response' = SorryReply
    /\ Step(<<Ev("ask"), Ev("model_call_failed"), Ev("ask_ret")>>, "lp_face_speaking")

\* Plausible slip: listen has no `except Exception` and the failure propagates.
RecognitionFailureRaises ==
    /\ Raise("Exception", <<Ev("listen"), Ev("recognition_failed")>>)
    /\ UNCHANGED user_input

\* AudioIO.listen, recognition failed or nothing understood: return ""
RecognitionFailure ==
    /\ user_input' = <<>>
    /\ Step(<<Ev("listen"), Ev("recognition_failed"), Ev("input")>>, "lp_dispatch")

---------------------------------------------------------------------------
(* AshRobot.startup_sequence                                 (main.py:94-110) *)

Idle == UNCHANGED <<cfgVars, running, use_voice, user_input, gesture_name, response,
                    demo_i, sigints, sig_in_turn, listen_called, gestVars, frameVars, lcdVars>>

StartupFace ==
    /\ pc = "st_face_startup"
    /\ FaceCall(startup_expression, "st_neutral")
    /\ Idle /\ UNCHANGED spk_ret

StartupNeutral ==
    /\ pc = "st_neutral"
    /\ ServoCall("neutral", "st_face_happy")
    /\ Idle /\ UNCHANGED spk_ret

StartupFaceHappy ==
    /\ pc = "st_face_happy"
    /\ FaceCall("happy", "st_wave")
    /\ Idle /\ UNCHANGED spk_ret

StartupWave ==
    /\ pc = "st_wave"
    /\ ServoCall("wave2", "st_speak")
    /\ Idle /\ UNCHANGED spk_ret

StartupSpeak ==
    /\ pc = "st_speak"
    /\ SpeakCall(HelloText, "lp_enter")
    /\ Idle

\* interaction_loop up to `while self.running`
EnterLoop ==
    /\ pc = "lp_enter"
    /\ running' = TRUE
    /\ use_voice' = ((~force_text_mode) /\ microphone_available)
    /\ Step(<<Ev("loop_start")>>, "lp_face_listening")
    /\ UNCHANGED <<cfgVars, user_input, gesture_name, response, demo_i, spk_ret,
                   devVars, sigints, sig_in_turn, listen_called, gestVars, frameVars, lcdVars>>

---------------------------------------------------------------------------
(* AshRobot.interaction_loop                                (main.py:215-325) *)

NoSpeak == UNCHANGED spk_ret

\* The locals of an iteration that is over: each is assigned again before
\* it is read, so the model forgets their values.
ForgetLocals ==
    /\ user_input' = <<>>
    /\ gesture_name' = "None"
    /\ response' = ""
    /\ demo_i' = 1

\* Step 1: display.set_expression("listening").  A new iteration: the log
\* restarts here.
ListeningFace ==
    /\ pc = "lp_face_listening"
    /\ running
    /\ \E ok \in BOOLEAN : current_expression' = set_expression("listening", ok)
    /\ Used("display")
    /\ pc' = "lp_neutral"
    /\ log' = <<Face("listening")>>
    /\ ForgetLocals
    /\ UNCHANGED <<loop_exit, shutdown_runs, left_position, right_position, closed>>
    /\ UNCHANGED <<cfgVars, running, use_voice, sigints, sig_in_turn, listen_called,
                   gestVars, frameVars, lcdVars>>
    /\ NoSpeak

\* Plausible slip: the arms are left where the last turn put them.
ListeningNeutralSkipped ==
    /\ pc = "lp_neutral"
    /\ Step(<<>>, "lp_input")
    /\ UNCHANGED devVars
    /\ Idle /\ NoSpeak

ListeningNeutral ==
    /\ pc = "lp_neutral"
    /\ ServoCall("neutral", "lp_input")
    /\ Idle /\ NoSpeak

\* use_voice: user_input = self.audio.listen()
ListenVoice ==
    /\ pc = "lp_input"
    /\ use_voice
    /\ listen_called' = TRUE
    /\ Used("audio")
    /\ IF ~microphone_available
       THEN \* listen's console fallback: input().strip(), "" at end of input
            \E t \in LoopInputs :
                /\ user_input' = Strip(t)
                /\ Step(<<Ev("listen"), Ev("input")>>, "lp_dispatch")
       ELSE \/ \E t \in LoopInputs \ {<<>>} :
                /\ user_input' = t
                /\ Step(<<Ev("listen"), Ev("input")>>, "lp_dispatch")
            \/ RecognitionFailure
    /\ UNCHANGED <<cfgVars, running, use_voice, gesture_name, response, demo_i,
                   sigints, sig_in_turn, gestVars, frameVars, lcdVars, left_position, right_position,
                   current_expression, closed>>
    /\ NoSpeak

\* not use_voice: user_input = input("You: ").strip()
ConsoleInput ==
    /\ pc = "lp_input"
    /\ ~use_voice
    /\ \E t \in LoopInputs : user_input' = Strip(t)
    /\ Step(<<Ev("console"), Ev("input")>>, "lp_dispatch")
    /\ UNCHANGED <<cfgVars, running, use_voice, gesture_name, response, demo_i,
                   sigints, sig_in_turn, listen_called, gestVars, frameVars, lcdVars, devVars>>
    /\ NoSpeak

\* not use_voice: input() raises EOFError: running = False; break
ConsoleEOF ==
    /\ pc = "lp_input"
    /\ ~use_voice
    /\ running' = FALSE
    /\ loop_exit' = "eof"
    /\ EnterShutdown(<<Ev("console"), Ev("eof")>>)
    /\ UNCHANGED <<cfgVars, use_voice, user_input, gesture_name, response, demo_i,
                   sigints, sig_in_turn, listen_called, gestVars, frameVars, lcdVars, devVars>>
    /\ NoSpeak

Quiet == /\ UNCHANGED <<cfgVars, running, user_input, gesture_name, response, demo_i,
                        sigints, sig_in_turn, listen_called, gestVars, frameVars, lcdVars, devVars>>
         /\ NoSpeak

\* `if not user_input or not user_input.strip(): continue`
ContinueOnEmpty ==
    /\ pc = "lp_dispatch"
    /\ Dispatch(user_input) = "empty"
    /\ Step(<<Ev("continue_empty")>>, "lp_face_listening")
    /\ UNCHANGED use_voice
    /\ Quiet

\* `if user_input_lower == "text": use_voice = False; continue`
SwitchToText ==
    /\ pc = "lp_dispatch"
    /\ Dispatch(user_input) = "text"
    /\ use_voice' = FALSE
    /\ Step(<<Ev("continue_mode")>>, "lp_face_listening")
    /\ Quiet

\* Plausible slip: 'voice' switches the mode without asking for a microphone.
SwitchToVoiceUnchecked ==
    /\ pc = "lp_dispatch"
    /\ Dispatch(user_input) = "voice"
    /\ use_voice' = TRUE
    /\ Step(<<Ev("continue_mode")>>, "lp_face_listening")
    /\ Quiet

\* `elif user_input_lower == "voice": if microphone_available: use_voice = True; continue`
SwitchToVoice ==
    /\ pc = "lp_dispatch"
    /\ Dispatch(user_input) = "voice"
    /\ use_voice' = IF microphone_available THEN TRUE ELSE use_voice
    /\ Step(<<Ev("continue_mode")>>, "lp_face_listening")
    /\ Quiet

\* quit commands: happy face, farewell, running = False, break
QuitCommand ==
    /\ pc = "lp_dispatch"
    /\ Dispatch(user_input) = "quit"
    /\ Step(<<Ev("quit")>>, "q_face_happy")
    /\ UNCHANGED use_voice
    /\ Quiet

QuitFace ==
    /\ pc = "q_face_happy"
    /\ FaceCall("happy", "q_speak")
    /\ Idle /\ NoSpeak

QuitSpeak ==
    /\ pc = "q_speak"
    /\ SpeakCall(FarewellText, "q_break")
    /\ Idle

QuitBreak ==
    /\ pc = "q_break"
    /\ running' = FALSE
    /\ loop_exit' = "quit"
    /\ EnterShutdown(<<>>)
    /\ UNCHANGED <<cfgVars, use_voice, user_input, gesture_name, response, demo_i,
                   sigints, sig_in_turn, listen_called, gestVars, frameVars, lcdVars, devVars>>
    /\ NoSpeak

\* gesture demo command: self._demo_gestures(); continue
DemoCommand ==
    /\ pc = "lp_dispatch"
    /\ Dispatch(user_input) = "demo"
    /\ demo_i' = 1
    /\ Step(<<Ev("demo")>>, "dm_face")
    /\ UNCHANGED <<cfgVars, running, use_voice, user_input, gesture_name, response,
                   sigints, sig_in_turn, listen_called, gestVars, frameVars, lcdVars, devVars>>
    /\ NoSpeak

DemoFace ==
    /\ pc = "dm_face"
    /\ FaceCall(DemoList[demo_i][2], "dm_gesture")
    /\ Idle /\ NoSpeak

DemoGesture ==
    /\ pc = "dm_gesture"
    /\ ServoCall(DemoList[demo_i][1], IF demo_i < Len(DemoList) THEN "dm_face" ELSE "dm_end_face")
    /\ demo_i' = IF demo_i < Len(DemoList) THEN demo_i + 1 ELSE demo_i
    /\ UNCHANGED <<cfgVars, running, use_voice, user_input, gesture_name, response,
                   sigints, sig_in_turn, listen_called, gestVars, frameVars, lcdVars>>
    /\ NoSpeak

DemoEndFace ==
    /\ pc = "dm_end_face"
    /\ FaceCall("happy", "dm_end_neutral")
    /\ Idle /\ NoSpeak

DemoEndNeutral ==
    /\ pc = "dm_end_neutral"
    /\ ServoCall("neutral", "lp_face_listening")
    /\ Idle /\ NoSpeak

\* `special_gesture, gesture_name = self._analyze_gesture_from_input(user_input)`
AnalyzeInput ==
    /\ pc = "lp_dispatch"
    /\ Dispatch(user_input) = "turn"
    /\ gesture_name' = analyze_gesture_from_input(user_input)
    /\ Step(<<Ev("classify")>>, "lp_face_thinking")
    /\ UNCHANGED <<cfgVars, running, use_voice, user_input, response, demo_i,
                   sigints, sig_in_turn, listen_called, gestVars, frameVars, lcdVars, devVars>>
    /\ NoSpeak

\* Step 2: display.set_expression("thinking")
ThinkingFace ==
    /\ pc = "lp_face_thinking"
    /\ FaceCall("thinking", "lp_point")
    /\ Idle /\ NoSpeak

\* special_gesture() if it is Point, else self.servos.point(): point either way
ThinkingPoint ==
    /\ pc = "lp_point"
    /\ ServoCall("point", "lp_ask")
    /\ Idle /\ NoSpeak

\* response = self.llm.ask(user_input)
Ask ==
    /\ pc = "lp_ask"
    /\ \/ \E r \in ModelReplies :
             /\ response' = r
             /\ Step(<<Ev("ask"), Ev("ask_ret")>>, "lp_face_speaking")
       \/ AskFailure
    /\ UNCHANGED <<cfgVars, running, use_voice, user_input, gesture_name, demo_i,
                   sigints, sig_in_turn, listen_called, gestVars, frameVars, lcdVars, devVars>>
    /\ NoSpeak

\* Step 3: display.set_expression("speaking")
SpeakingFace ==
    /\ pc = "lp_face_speaking"
    /\ FaceCall("speaking", "lp_gesture")
    /\ Idle /\ NoSpeak

\* `if special_gesture and gesture_name: special_gesture()`
SpecialGesture ==
    /\ pc = "lp_gesture"
    /\ IF gesture_name = "Wave" THEN ServoCall("wave", "lp_speak")
       ELSE IF gesture_name = "Arms Up" THEN ServoCall("arms_up", "lp_speak")
       ELSE IF gesture_name = "Point" THEN ServoCall("point", "lp_speak")
       ELSE /\ Step(<<>>, "lp_speak")
            /\ UNCHANGED devVars
    /\ Idle /\ NoSpeak

\* self.audio.speak(response)
SpeakResponse ==
    /\ pc = "lp_speak"
    /\ SpeakCall(response, "lp_face_happy")
    /\ Idle

\* Step 4: display.set_expression("happy")
HappyFace ==
    /\ pc = "lp_face_happy"
    /\ FaceCall("happy", "lp_final_gesture")
    /\ Idle /\ NoSpeak

\* Plausible slip: the happy gesture is made whatever the intent.
FinalGestureAlways ==
    /\ pc = "lp_final_gesture"
    /\ ServoCall("arms_up", "lp_cooldown")
    /\ Idle /\ NoSpeak

\* keep Wave / Arms Up, else self.servos.arms_up()
FinalGesture ==
    /\ pc = "lp_final_gesture"
    /\ IF gesture_name \in {"Wave", "Arms Up"}
       THEN /\ Step(<<>>, "lp_cooldown")
            /\ UNCHANGED devVars
       ELSE ServoCall("arms_up", "lp_cooldown")
    /\ Idle /\ NoSpeak

\* Plausible slip: the cooldown sleep is missing.
CooldownSkipped ==
    /\ pc = "lp_cooldown"
    /\ Step(<<>>, "lp_face_listening")
    /\ UNCHANGED devVars
    /\ Idle /\ NoSpeak

\* Step 5: time.sleep(self.cooldown), then the next iteration
Cooldown ==
    /\ pc = "lp_cooldown"
    /\ Step(<<Ev("cooldown")>>, "lp_face_listening")
    /\ UNCHANGED devVars
    /\ Idle /\ NoSpeak

\* except Exception: display.set_expression("error")
ErrorFace ==
    /\ pc = "er_face"
    /\ FaceCall("error", "er_speak")
    /\ Idle /\ NoSpeak

\* audio.speak("Sorry, I encountered an error.")
ErrorSpeak ==
    /\ pc = "er_speak"
    /\ SpeakCall(ErrorText, "er_sleep")
    /\ Idle

\* time.sleep(2), then the next iteration
ErrorSleep ==
    /\ pc = "er_sleep"
    /\ Step(<<Ev("error_sleep")>>, "lp_face_listening")
    /\ UNCHANGED devVars
    /\ Idle /\ NoSpeak

---------------------------------------------------------------------------
(* AshRobot.shutdown_sequence                               (main.py:168-188) *)

\* display.set_expression("neutral"); interaction_loop's locals are gone
ShutdownFace ==
    /\ pc = "sd_face"
    /\ FaceCall("neutral", "sd_speak")
    /\ ForgetLocals
    /\ UNCHANGED <<cfgVars, running, use_voice, sigints, sig_in_turn, listen_called,
                   gestVars, frameVars, lcdVars>>
    /\ NoSpeak

ShutdownSpeak ==
    /\ pc = "sd_speak"
    /\ SpeakCall(GoodbyeText, "sd_reset")
    /\ Idle

\* self.servos.reset()
ShutdownReset ==
    /\ pc = "sd_reset"
    /\ ServoCall("reset", "sd_clear")
    /\ Idle /\ NoSpeak

\* self.display.clear(): FaceDisplay.clear catches a framebuffer or SPI
\* failure; the pygame window branch has no try/except.
ShutdownClear ==
    /\ pc = "sd_clear"
    /\ Used("display")
    /\ \/ /\ current_expression' = "None"
          /\ Step(<<Ev("display_clear")>>, "sd_servos_close")
       \/ /\ display_backend = "hardware"
          /\ Step(<<Ev("display_clear")>>, "sd_servos_close")
          /\ UNCHANGED current_expression
       \/ /\ display_backend = "window"
          /\ Raise("Exception", <<Ev("display_clear")>>)
          /\ UNCHANGED current_expression
    /\ UNCHANGED <<left_position, right_position, closed>>
    /\ Idle /\ NoSpeak

\* Plausible slip: the display is closed before the servos.
ServosCloseDisplayFirst ==
    /\ pc = "sd_servos_close"
    /\ closed' = Append(closed, "display")
    /\ Step(<<Ev("close_display")>>, "sd_audio_close")
    /\ UNCHANGED <<left_position, right_position, current_expression, use_after_close>>
    /\ Idle /\ NoSpeak

\* self.servos.close(): reset(), then pca.deinit()
ServosClose ==
    /\ pc = "sd_servos_close"
    /\ \E k \in ServoOutcomes(GestureMoves("reset")) :
          LET pos == AfterMoves(<<left_position, right_position>>, GestureMoves("reset"), k) IN
          /\ left_position' = pos[1]
          /\ right_position' = pos[2]
          /\ IF k = Len(GestureMoves("reset"))
             THEN /\ closed' = Append(closed, "servos")
                  /\ Step(<<Servo("reset"), Ev("close_servos")>>, "sd_audio_close")
             ELSE /\ Raise("Exception", <<Servo("reset"), Ev("servo_write_failed")>>)
                  /\ UNCHANGED closed
    /\ Used("servos")
    /\ UNCHANGED current_expression
    /\ Idle /\ NoSpeak

\* self.audio.close(): pygame.mixer.quit()
AudioClose ==
    /\ pc = "sd_audio_close"
    /\ closed' = Append(closed, "audio")
    /\ Used("audio")
    /\ Step(<<Ev("close_audio")>>, "sd_display_close")
    /\ UNCHANGED <<left_position, right_position, current_expression>>
    /\ Idle /\ NoSpeak

\* self.display.close(): clear(), then the SPI driver and pygame are closed
DisplayClose ==
    /\ pc = "sd_display_close"
    /\ Used("display")
    /\ \/ /\ current_expression' = "None"
          /\ closed' = Append(closed, "display")
          /\ Step(<<Ev("display_clear"), Ev("close_display")>>, "done")
       \/ /\ display_backend = "hardware"
          /\ closed' = Append(closed, "display")
          /\ Step(<<Ev("display_clear"), Ev("close_display")>>, "done")
          /\ UNCHANGED current_expression
       \/ /\ display_backend = "window"
          /\ Raise("Exception", <<Ev("display_clear")>>)
          /\ UNCHANGED <<current_expression, closed>>
    /\ UNCHANGED <<left_position, right_position>>
    /\ Idle /\ NoSpeak

---------------------------------------------------------------------------
(* SIGINT: signal_handler calls sys.exit(0)                 (main.py:351-356, 388) *)

\* SystemExit is raised at the current position.  It is not an Exception,
\* so no `except Exception` or `except KeyboardInterrupt` catches it; the
\* bare `except:` around os.unlink in AudioIO.speak does.
SigInt ==
    /\ pc \notin EndPcs
    /\ sigints < MaxSigints
    /\ sigints' = sigints + 1
    /\ sig_in_turn' = (sig_in_turn \/ Region \in {"startup", "try", "handler"})
    /\ IF pc = "spk_unlink"
       THEN Step(<<Ev("sigint_swallowed"), <<"speak_ret", "True">>>>, spk_ret)
       ELSE Raise("SystemExit", <<>>)
    /\ spk_ret' = "none"
    /\ UNCHANGED <<cfgVars, running, use_voice, user_input, gesture_name, response,
                   demo_i, devVars, listen_called, gestVars, frameVars, lcdVars>>

---------------------------------------------------------------------------
(* Components that a run of the robot, or of the classifier, does not use  *)

\* no FaceDisplay call was made
FdNone ==
    [ op |-> "none", expression |-> "None", result |-> "None", before |-> "None",
      loaded |-> FALSE, write |-> "none", prev_write |-> "none", shown |-> "None" ]

\* no frame is being converted
FrameIdle ==
    /\ frame_pc = "idle"
    /\ rgb_array = <<>>
    /\ byte_data = <<>>
    /\ transfers = <<>>

\* no ILI9486SPI is being constructed or called; width and height are those
\* of the panel
LcdIdleWith(width, height) ==
    /\ gpiod_importable = FALSE
    /\ rpigpio_importable = FALSE
    /\ chip_openable = FALSE
    /\ lines_free = FALSE
    /\ rpigpio_usable = FALSE
    /\ spi_openable = FALSE
    /\ spi_faulty = FALSE
    /\ sleep_jitter = 0
    /\ lcd_width = width
    /\ lcd_height = height
    /\ rotation = 1
    /\ lcd_pc = "idle"
    /\ lines_held = FALSE
    /\ spi_is_open = FALSE
    /\ dc = 0
    /\ rst = 0
    /\ bl = 0
    /\ clock = 0
    /\ init_wire = <<>>
    /\ wire = <<>>
    /\ last_call = <<"none">>
    /\ close_calls = 0
    /\ io_after_close = FALSE
    /\ fd_pc = "idle"
    /\ has_framebuffer = FALSE
    /\ image_cache = {}
    /\ fd_ret = FdNone

LcdIdle == LcdIdleWith(480, 320)

---------------------------------------------------------------------------
(* The robot: AshRobot.__init__ then AshRobot.run                          *)

Init ==
    /\ force_text_mode \in BOOLEAN
    /\ microphone_available \in BOOLEAN
    /\ servo_hw \in BOOLEAN
    /\ display_backend \in {"hardware", "window"}
    /\ pc = "st_face_startup"
    /\ running = FALSE
    /\ use_voice = FALSE
    /\ user_input = <<>>
    /\ gesture_name = "None"
    /\ response = ""
    /\ demo_i = 1
    /\ spk_ret = "none"
    /\ left_position = 90
    /\ right_position = 90
    /\ current_expression = "None"
    /\ closed = <<>>
    /\ use_after_close = FALSE
    /\ log = <<>>
    /\ sigints = 0
    /\ sig_in_turn = FALSE
    /\ loop_exit = "none"
    /\ listen_called = FALSE
    /\ shutdown_runs = 0
    /\ g_input = <<>>
    /\ g_result = "pending"
    /\ FrameIdle
    /\ LcdIdle

Next ==
    \/ StartupFace \/ StartupNeutral \/ StartupFaceHappy \/ StartupWave
    \/ StartupSpeak \/ EnterLoop
    \/ ListeningFace \/ ListeningNeutral \/ ListenVoice \/ ConsoleInput \/ ConsoleEOF
    \/ ContinueOnEmpty \/ SwitchToText \/ SwitchToVoice
    \/ QuitCommand \/ QuitFace \/ QuitSpeak \/ QuitBreak
    \/ DemoCommand \/ DemoFace \/ DemoGesture \/ DemoEndFace \/ DemoEndNeutral
    \/ AnalyzeInput \/ ThinkingFace \/ ThinkingPoint \/ Ask \/ SpeakingFace
    \/ SpecialGesture \/ SpeakResponse \/ HappyFace \/ FinalGesture \/ Cooldown
    \/ ErrorFace \/ ErrorSpeak \/ ErrorSleep
    \/ SpeakPlay \/ SpeakUnlink
    \/ ShutdownFace \/ ShutdownSpeak \/ ShutdownReset \/ ShutdownClear
    \/ ServosClose \/ AudioClose \/ DisplayClose
    \/ SigInt

Spec == Init /\ [][Next]_vars

---------------------------------------------------------------------------
(* The gesture classifier on its own: every text over a small alphabet up  *)
(* to MaxInputLen characters, and the sentences "Hello there!", "That's    *)
(* awesome!", "What time is it?", "The sky is blue.", "What is this?"      *)

GestureAlphabet == {"h", "i", "y", "a", "w", "?", "H"}

SampleSentences ==
    { <<"H","e","l","l","o"," ","t","h","e","r","e","!">>,
      <<"T","h","a","t","'","s"," ","a","w","e","s","o","m","e","!">>,
      <<"W","h","a","t"," ","t","i","m","e"," ","i","s"," ","i","t","?">>,
      <<"T","h","e"," ","s","k","y"," ","i","s"," ","b","l","u","e",".">>,
      <<"W","h","a","t"," ","i","s"," ","t","h","i","s","?">> }

GestureInputs ==
    SampleSentences \cup UNION { [1..n -> GestureAlphabet] : n \in 0..MaxInputLen }

InitGesture ==
    /\ force_text_mode = FALSE
    /\ microphone_available = FALSE
    /\ servo_hw = FALSE
    /\ display_backend = "window"
    /\ pc = "classifier"
    /\ running = FALSE
    /\ use_voice = FALSE
    /\ user_input = <<>>
    /\ gesture_name = "None"
    /\ response = ""
    /\ demo_i = 1
    /\ spk_ret = "none"
    /\ left_position = 90
    /\ right_position = 90
    /\ current_expression = "None"
    /\ closed = <<>>
    /\ use_after_close = FALSE
    /\ log = <<>>
    /\ sigints = 0
    /\ sig_in_turn = FALSE
    /\ loop_exit = "none"
    /\ listen_called = FALSE
    /\ shutdown_runs = 0
    /\ g_input \in GestureInputs
    /\ g_result = "pending"
    /\ FrameIdle
    /\ LcdIdle

\* gesture_name of self._analyze_gesture_from_input(g_input)
Classify ==
    /\ g_result = "pending"
    /\ g_result' = analyze_gesture_from_input(g_input)
    /\ UNCHANGED <<robotVars, g_input, frameVars, lcdVars>>

NextGesture == Classify

SpecGesture == InitGesture /\ [][NextGesture]_vars

---------------------------------------------------------------------------
(* Claims                                                                  *)

\* Occurrence of the word w in text, by walking the text.
RECURSIVE OccursIn(_, _)
OccursIn(w, text) ==
    IF Len(text) < Len(w) THEN FALSE
    ELSE IF \A j \in 1..Len(w) : text[j] = w[j] THEN TRUE
    ELSE OccursIn(w, Tail(text))

HasGreeting(t)    == \E w \in greeting_words : OccursIn(w, t)
HasCelebration(t) == \E w \in celebration_words : OccursIn(w, t)
HasQuestion(t)    ==
    \/ \E w \in question_words : Len(w) <= Len(t) /\ \A j \in 1..Len(w) : t[j] = w[j]
    \/ "?" \in Range(t)

\* C8: _analyze_gesture_from_input depends only on the lowercased input and
\* returns exactly one tag or none, first match winning: Wave iff the text
\* contains a greeting keyword; Arms Up iff it contains no greeting keyword
\* but a celebration keyword; Point iff it contains neither and starts with
\* a question keyword or contains '?'; no tag otherwise.
Thm_C8 ==
    g_result # "pending" =>
        LET t == Lower(g_input) IN
        /\ g_result \in {"Wave", "Arms Up", "Point", "None"}
        /\ (g_result = "Wave") <=> HasGreeting(t)
        /\ (g_result = "Arms Up") <=> (~HasGreeting(t) /\ HasCelebration(t))
        /\ (g_result = "Point") <=> (~HasGreeting(t) /\ ~HasCelebration(t) /\ HasQuestion(t))
        /\ (g_result = "None") <=> (~HasGreeting(t) /\ ~HasCelebration(t) /\ ~HasQuestion(t))
        /\ g_result = analyze_gesture_from_input(t)

\* An input with capitals holding a greeting and a celebration keyword
\* ("Hiyay") has been tagged Wave.
Wit_C8 ==
    /\ g_result = "Wave"
    /\ HasGreeting(Lower(g_input))
    /\ HasCelebration(Lower(g_input))
    /\ g_input # Lower(g_input)

---------------------------------------------------------------------------
(* Reading the log                                                         *)

Last(q) == q[Len(q)]

\* the faces requested, in order
FacesOf(q) ==
    LET f == SelectSeq(q, LAMBDA e : e[1] = "face") IN [i \in DOMAIN f |-> f[i][2]]

\* the servo gestures invoked, in order
ServosOf(q) ==
    LET f == SelectSeq(q, LAMBDA e : e[1] = "servo") IN [i \in DOMAIN f |-> f[i][2]]

IsPrefix(a, b) == Len(a) <= Len(b) /\ SubSeq(b, 1, Len(a)) = a

\* some occurrence of a precedes every occurrence of b
Precedes(a, b, q) ==
    \A j \in DOMAIN q : q[j] = b => \E i \in 1..(j - 1) : q[i] = a

SpeakReturned(q) == <<"speak_ret", "True">> \in Range(q) \/ <<"speak_ret", "False">> \in Range(q)

\* The iteration under way took input, reached the classifier and no
\* exception was raised in it: a normal turn so far.
NormalTurn == Ev("classify") \in Range(log) /\ Ev("Exception") \notin Range(log)

TurnFaces == <<"listening", "thinking", "speaking", "happy">>

\* C1: in a turn with a non-command input and no exception, the faces are
\* requested in the order listening, thinking, speaking, happy: thinking
\* only after the input was received, speaking only after ask returned,
\* happy only after speak(response) returned; the turn ends with the
\* cooldown, the next listening face is requested only after the cooldown
\* has elapsed, and nothing but that request follows the cooldown.
Thm_C1 ==
    /\ [](NormalTurn =>
            /\ IsPrefix(FacesOf(log), TurnFaces)
            /\ Precedes(Ev("input"), Face("thinking"), log)
            /\ Precedes(Ev("ask_ret"), Face("speaking"), log)
            /\ Precedes(<<"speak", response>>, Face("happy"), log)
            /\ (Face("happy") \in Range(log) => SpeakReturned(log))
            /\ (Ev("cooldown") \in Range(log) =>
                    FacesOf(log) = TurnFaces /\ Last(log) = Ev("cooldown")))
    /\ [][(NormalTurn /\ log' = <<Face("listening")>>) => Last(log) = Ev("cooldown")]_vars
    /\ [][(NormalTurn /\ Last(log) = Ev("cooldown") /\ sigints' = sigints)
            => log' = <<Face("listening")>>]_vars

\* A turn tagged Wave has run to the end of its cooldown.
Wit_C1 ==
    /\ pc = "lp_face_listening"
    /\ gesture_name = "Wave"
    /\ Last(log) = Ev("cooldown")
    /\ FacesOf(log) = TurnFaces

ExitPhrases ==
    { <<"q","u","i","t">>, <<"e","x","i","t">>, <<"b","y","e">>,
      <<"g","o","o","d","b","y","e">>, <<"s","t","o","p">> }

IsExitPhrase(t) == Strip(Lower(t)) \in ExitPhrases

InLoop == Region \in {"try", "handler"}

\* C2 as stated: the loop is left only on an exit phrase or an interrupt.
Orig_C2 == loop_exit \in {"none", "quit", "SystemExit"}

\* C2 amended: control leaves interaction_loop only on an exit phrase, on
\* an interrupt, or when console input is at end of file (EOFError) in text
\* mode; no failure of a collaborator, in the turn or in the error handler,
\* and no other input leaves it.
Thm_C2 ==
    /\ [](loop_exit \in {"none", "quit", "eof", "SystemExit"})
    /\ []((loop_exit = "none" /\ shutdown_runs = 0) \/ ~InLoop)
    /\ [][(InLoop /\ ~InLoop') =>
            \/ loop_exit' = "quit" /\ IsExitPhrase(user_input) /\ sigints' = sigints
            \/ loop_exit' = "eof" /\ pc = "lp_input" /\ ~use_voice /\ sigints' = sigints
            \/ loop_exit' = "SystemExit" /\ sigints' = sigints + 1]_vars

\* The error handler has run, its own apology failed to play, and the loop
\* is about to listen again.
Wit_C2 ==
    /\ pc = "lp_face_listening"
    /\ running
    /\ Last(log) = Ev("error_sleep")
    /\ \E i \in DOMAIN log :
          /\ log[i] = <<"speak", ErrorText>>
          /\ log[i + 1] = Ev("tts_failed")

\* C3 as stated: a model call that raises drives the turn to ERROR.
Orig_C3 ==
    Ev("model_call_failed") \in Range(log) =>
        (pc = "er_face" \/ Face("error") \in Range(log))

\* the events logged after the first Ev("Exception")
RECURSIVE AfterException(_)
AfterException(q) ==
    IF q = <<>> THEN <<>>
    ELSE IF Head(q) = Ev("Exception") THEN Tail(q)
    ELSE AfterException(Tail(q))

ErrorSequence ==
    << Face("error"), <<"speak", ErrorText>>, Ev("error_sleep") >>

\* C3 amended: a model call that raises is caught inside LLMClient.ask,
\* which returns the fixed reply; the turn goes on to SPEAKING with that
\* reply and ERROR is not entered for it.  ERROR is entered only when a
\* servo write raises in the turn; it then requests the error face, speaks
\* the apology, waits, and returns to LISTENING with the loop running.
Thm_C3 ==
    /\ (Ev("model_call_failed") \in Range(log) =>
            /\ response = SorryReply
            /\ Precedes(Ev("ask_ret"), Face("speaking"), log)
            /\ \A i \in DOMAIN log :
                  log[i] = Ev("model_call_failed") =>
                      i < Len(log) /\ log[i + 1] = Ev("ask_ret"))
    /\ ((pc \in HandlerPcs \/ Face("error") \in Range(log)) =>
            /\ Ev("servo_write_failed") \in Range(log)
            /\ IsPrefix(SelectSeq(AfterException(log),
                                  LAMBDA e : e[1] # "speak_ret" /\ e[2] # "tts_failed"
                                             /\ e[2] # "sigint_swallowed"),
                        ErrorSequence))
    /\ (log # <<>> /\ Last(log) = Ev("error_sleep") =>
            pc = "lp_face_listening" /\ running /\ loop_exit = "none")

\* The model call raised and the turn is at SPEAKING with the fixed reply.
Wit_C3 ==
    /\ pc = "lp_speak"
    /\ Ev("model_call_failed") \in Range(log)
    /\ response = SorryReply
    /\ Face("speaking") \in Range(log)

\* every occurrence of a in q is immediately followed by b
FollowedBy(a, b, q) ==
    \A i \in DOMAIN q : q[i] = a => (i < Len(q) /\ q[i + 1] = b)

\* every occurrence of b in q is immediately preceded by a
PrecededBy(a, b, q) ==
    \A i \in DOMAIN q : q[i] = b => (i > 1 /\ q[i - 1] = a)

\* C4: a recoverable collaborator failure does not propagate: a failed
\* recognition makes listen return the empty string, a failed text-to-speech
\* makes speak return False, a failed model call makes ask return the fixed
\* reply; no exception reaches interaction_loop for any of them, the error
\* face is not requested because of them, the loop is not left, and the
\* turn continues with the default value.
Thm_C4 ==
    /\ FollowedBy(Ev("recognition_failed"), Ev("input"), log)
    /\ (Ev("recognition_failed") \in Range(log) =>
            /\ user_input = <<>>
            /\ pc \in {"lp_dispatch", "lp_face_listening"}
            /\ loop_exit = "none")
    /\ FollowedBy(Ev("tts_failed"), <<"speak_ret", "False">>, log)
    /\ FollowedBy(Ev("model_call_failed"), Ev("ask_ret"), log)
    /\ (Ev("model_call_failed") \in Range(log) =>
            /\ response = SorryReply
            /\ (Face("speaking") \in Range(log) \/ pc = "lp_face_speaking"))
    /\ (InLoop => PrecededBy(Ev("servo_write_failed"), Ev("Exception"), log))
    /\ (Face("error") \in Range(log) => Ev("Exception") \in Range(log))
    /\ (pc \in HandlerPcs => Ev("Exception") \in Range(log))

\* A turn in which the model call failed and then the playback of the fixed
\* reply failed has gone on to the happy face.
Wit_C4 ==
    /\ pc = "lp_face_happy"
    /\ Ev("model_call_failed") \in Range(log)
    /\ Ev("tts_failed") \in Range(log)
    /\ response = SorryReply
    /\ Ev("Exception") \notin Range(log)

QuitPcs == {"lp_dispatch", "q_face_happy", "q_speak", "q_break"}

\* C5: an input that is an exit phrase once trimmed and lowercased ends the
\* loop and leads to shutdown_sequence; for that input the thinking face
\* and the speaking face are not requested, the classifier is not run and
\* ask is not called.
Thm_C5 ==
    /\ []((IsExitPhrase(user_input) /\ user_input # <<>>) =>
            /\ Face("thinking") \notin Range(log)
            /\ Face("speaking") \notin Range(log)
            /\ Ev("classify") \notin Range(log)
            /\ Ev("ask") \notin Range(log)
            /\ pc \in QuitPcs \cup SpeakPcs \cup {"sd_face", "aborted"}
            /\ (pc \in SpeakPcs => spk_ret = "q_break"))
    /\ [](loop_exit = "quit" =>
            ~running /\ shutdown_runs = 1 /\ Region \in {"shutdown", "end"})
    /\ [][(pc = "lp_dispatch" /\ IsExitPhrase(user_input) /\ sigints' = sigints)
            => pc' = "q_face_happy"]_vars
    /\ [][(pc = "q_break" /\ sigints' = sigints)
            => (pc' = "sd_face" /\ loop_exit' = "quit" /\ ~running')]_vars

\* The loop was left on an exit phrase and the shutdown has completed.
Wit_C5 ==
    /\ loop_exit = "quit"
    /\ pc = "done"
    /\ shutdown_runs = 1

ShutdownEvents ==
    << Ev("shutdown_sequence"), Face("neutral"), <<"speak", GoodbyeText>>,
       Servo("reset"), Ev("display_clear"),
       Servo("reset"), Ev("close_servos"),
       Ev("close_audio"),
       Ev("display_clear"), Ev("close_display") >>

CloseOrder == <<"servos", "audio", "display">>

\* the log without what happens inside audio.speak
OutsideSpeak(q) ==
    SelectSeq(q, LAMBDA e : e[1] # "speak_ret" /\ e[2] # "tts_failed"
                            /\ e[2] # "sigint_swallowed")

Orig_C7 ==
    sig_in_turn => (Region \in {"shutdown", "end"} /\ shutdown_runs = 1)

ModeCommands == { <<"t","e","x","t">>, <<"v","o","i","c","e">> }

IsModeCommand(t) == Strip(Lower(t)) \in ModeCommands

\* C9: an input that is 'text' or 'voice' once trimmed and lowercased is
\* handled before the classifier and the model: the step taken from the
\* dispatch sets the mode flag as the command says and changes nothing else
\* but the position, which returns to LISTENING; in that iteration only the
\* listening face and the neutral arms were requested, and neither the
\* classifier nor ask was called.
Thm_C9 ==
    /\ [][(pc = "lp_dispatch" /\ IsModeCommand(user_input) /\ sigints' = sigints) =>
            /\ pc' = "lp_face_listening"
            /\ log' = Append(log, Ev("continue_mode"))
            /\ use_voice' = IF Strip(Lower(user_input)) = <<"t","e","x","t">> THEN FALSE
                            ELSE IF microphone_available THEN TRUE ELSE use_voice
            /\ UNCHANGED <<cfgVars, running, devVars, loop_exit, listen_called,
                           shutdown_runs, spk_ret, sig_in_turn, gestVars,
                           frameVars, lcdVars>>]_vars
    /\ []((log # <<>> /\ Last(log) = Ev("continue_mode")) =>
            /\ FacesOf(log) = <<"listening">>
            /\ ServosOf(log) = <<"neutral">>
            /\ Ev("classify") \notin Range(log)
            /\ Ev("ask") \notin Range(log)
            /\ \A e \in Range(log) : e[1] # "speak"
            /\ pc = "lp_face_listening"
            /\ running /\ loop_exit = "none")

\* The command 'voice' has switched a console-mode loop to voice input.
Wit_C9 ==
    /\ pc = "lp_face_listening"
    /\ Last(log) = Ev("continue_mode")
    /\ Strip(Lower(user_input)) = <<"v","o","i","c","e">>
    /\ force_text_mode
    /\ use_voice

\* C10: started with --text, AudioIO.listen is never called.
Orig_C10 == force_text_mode => ~listen_called

---------------------------------------------------------------------------
(* ILI9486SPI.display_image, from the RGB array to the SPI transfers       *)
(*                                              (lcd_spi_driver.py:289-310) *)

\* Frames with 2048 * MaxChunks pixels (4096 * MaxChunks bytes) and one more
\* are converted.
MaxChunks == 2

\* Pixels compared pairwise in a frame.
MaxPairs == 24

\* chunk_size = 4096
chunk_size == 4096

Min(a, b) == IF a <= b THEN a ELSE b

\* v >> n
ShiftRight(v, n) == v \div (2 ^ n)

\* v << n on np.uint16
ShiftLeft16(v, n) == (v * (2 ^ n)) % 65536

\* a | b, bit by bit
RECURSIVE BitOr(_, _)
BitOr(a, b) ==
    IF a = 0 THEN b
    ELSE IF b = 0 THEN a
    ELSE (IF a % 2 = 1 \/ b % 2 = 1 THEN 1 ELSE 0) + 2 * BitOr(a \div 2, b \div 2)

\* Plausible slip: green keeps 5 bits like red and blue (RGB555 layout).
rgb565_green5(pixel) ==
    BitOr(BitOr(ShiftLeft16(ShiftRight(pixel[1], 3), 11),
                ShiftLeft16(ShiftRight(pixel[2], 3), 5)),
          ShiftRight(pixel[3], 3))

\* r5 = r >> 3, g6 = g >> 2, b5 = b >> 3; rgb565 = (r5 << 11) | (g6 << 5) | b5
rgb565(pixel) ==
    BitOr(BitOr(ShiftLeft16(ShiftRight(pixel[1], 3), 11),
                ShiftLeft16(ShiftRight(pixel[2], 2), 5)),
          ShiftRight(pixel[3], 3))

\* astype('>u2').tobytes() of one value: high byte, low byte
BigEndian(word) == << word \div 256, word % 256 >>

\* the shape of an array of rows
Rows(array) == Len(array)
Cols(array) == IF array = <<>> THEN 0 ELSE Len(array[1])

\* ndarray.flatten(): C order, the last index changes fastest
flatten(array) ==
    [k \in 1..(Rows(array) * Cols(array)) |->
        array[((k - 1) \div Cols(array)) + 1][((k - 1) % Cols(array)) + 1]]

\* byte_data = rgb565.flatten().astype('>u2').tobytes()
ToBytes(array) ==
    LET pixel_data == flatten(array) IN
    [k \in 1..(2 * Len(pixel_data)) |->
        BigEndian(rgb565(pixel_data[(k + 1) \div 2]))[2 - (k % 2)]]

\* data[i:j] of Python, i and j counted from 0
Slice(data, i, j) == SubSeq(data, i + 1, Min(j, Len(data)))

\* Plausible slip: the loop stops before a last chunk shorter than chunk_size.
RECURSIVE WholeChunksFrom(_, _, _)
WholeChunksFrom(data, i, sent) ==
    IF i + chunk_size > Len(data) THEN sent
    ELSE WholeChunksFrom(data, i + chunk_size,
                         Append(sent, Slice(data, i, i + chunk_size)))

\* for i in range(0, len(byte_data), chunk_size): spi.xfer2(list(byte_data[i:i + chunk_size]))
RECURSIVE ChunksFrom(_, _, _)
ChunksFrom(data, i, sent) ==
    IF i >= Len(data) THEN sent
    ELSE ChunksFrom(data, i + chunk_size,
                    Append(sent, Slice(data, i, i + chunk_size)))

WholeChunks(data) == WholeChunksFrom(data, 0, <<>>)

Chunks(data) == ChunksFrom(data, 0, <<>>)

\* Plausible slip: the line is left low after the memory-write command.
PixelBurstsDcLow(data) ==
    LET chunks == Chunks(data) IN [j \in 1..Len(chunks) |-> << 0, chunks[j] >>]

\* self._set_dc(1), then one spi.xfer2 per chunk
PixelBursts(data) ==
    LET chunks == Chunks(data) IN [j \in 1..Len(chunks) |-> << 1, chunks[j] >>]

CMD_SWRESET == 1
CMD_SLPOUT == 17
CMD_DISPON == 41
CMD_CASET == 42
CMD_RASET == 43
CMD_RAMWR == 44
CMD_MADCTL == 54
CMD_PIXFMT == 58

\* _write_command(cmd): DC low, one byte
Command(cmd) == << 0, <<cmd>> >>

\* _write_data(data): DC high, the bytes
Data(bytes) == << 1, bytes >>

\* Plausible slip: the window ends at (width, height).
set_window_exclusive(x0, y0, x1, y1) ==
    << Command(CMD_CASET),
       Data(<< x0 \div 256, x0 % 256, (x1 + 1) \div 256, (x1 + 1) % 256 >>),
       Command(CMD_RASET),
       Data(<< y0 \div 256, y0 % 256, (y1 + 1) \div 256, (y1 + 1) % 256 >>),
       Command(CMD_RAMWR) >>

\* set_window: the transfers it makes
set_window(x0, y0, x1, y1) ==
    << Command(CMD_CASET),
       Data(<< x0 \div 256, x0 % 256, x1 \div 256, x1 % 256 >>),
       Command(CMD_RASET),
       Data(<< y0 \div 256, y0 % 256, y1 \div 256, y1 % 256 >>),
       Command(CMD_RAMWR) >>

\* display_image on a frame of RGB pixels: the transfers it makes
FrameTransfers(frame) ==
    set_window(0, 0, lcd_width - 1, lcd_height - 1) \o PixelBursts(ToBytes(frame))

\* The frames converted: a few pixels, and row lengths around the chunk
\* ceiling of 2048 pixels.  Each channel is a ramp along the row and down
\* the column from a seed, so that long rows go through every value 0..255.
FrameShapes ==
    { <<1, 1>>, <<2, 1>>, <<1, 2>>, <<2, 2>>, <<3, 2>>, <<2, 3>> }
    \cup { << (chunk_size \div 2) * k + d, 1 >> : k \in 1..MaxChunks, d \in {-1, 0, 1} }
    \cup { << (chunk_size \div 4) * k + d, 2 >> : k \in 1..MaxChunks, d \in {0, 1} }

Seeds ==
    { <<0, 0, 0>>, <<255, 255, 255>>, <<7, 3, 8>>, <<8, 4, 7>>,
      <<248, 252, 0>>, <<127, 128, 129>> }

\* Image.new('RGB', size, color), as made by clear(color)
Solid(size, color) == [y \in 1..size[2] |-> [x \in 1..size[1] |-> color]]

Ramp(shape, seed) ==
    [y \in 1..shape[2] |->
        [x \in 1..shape[1] |->
            << (seed[1] + (x - 1) + 3 * (y - 1)) % 256,
               (seed[2] + 2 * (x - 1) + (y - 1)) % 256,
               (seed[3] + (x - 1) + 5 * (y - 1)) % 256 >>]]

InitFrame ==
    /\ force_text_mode = FALSE
    /\ microphone_available = FALSE
    /\ servo_hw = FALSE
    /\ display_backend = "hardware"
    /\ pc = "display_image"
    /\ running = FALSE
    /\ use_voice = FALSE
    /\ user_input = <<>>
    /\ gesture_name = "None"
    /\ response = ""
    /\ demo_i = 1
    /\ spk_ret = "none"
    /\ left_position = 90
    /\ right_position = 90
    /\ current_expression = "None"
    /\ closed = <<>>
    /\ use_after_close = FALSE
    /\ log = <<>>
    /\ sigints = 0
    /\ sig_in_turn = FALSE
    /\ loop_exit = "none"
    /\ listen_called = FALSE
    /\ shutdown_runs = 0
    /\ g_input = <<>>
    /\ g_result = "pending"
    /\ frame_pc = "image"
    /\ \E shape \in FrameShapes, seed \in Seeds :
          /\ rgb_array \in {Ramp(shape, seed), Solid(shape, seed)}
          /\ LcdIdleWith(shape[1], shape[2])
    /\ byte_data = <<>>
    /\ transfers = <<>>

\* display_image, lines 286-287: self.set_window(0, 0, width - 1, height - 1)
SetWindow ==
    /\ frame_pc = "image"
    /\ transfers' = set_window(0, 0, lcd_width - 1, lcd_height - 1)
    /\ frame_pc' = "window"
    /\ UNCHANGED <<rgb_array, byte_data, robotVars, gestVars, lcdVars>>

\* display_image, lines 289-300: RGB888 to RGB565 bytes
ConvertFrame ==
    /\ frame_pc = "window"
    /\ byte_data' = ToBytes(rgb_array)
    /\ frame_pc' = "packed"
    /\ UNCHANGED <<rgb_array, transfers, robotVars, gestVars, lcdVars>>

\* display_image, lines 302-310: the chunk loop
SendChunks ==
    /\ frame_pc = "packed"
    /\ transfers' = transfers \o PixelBursts(byte_data)
    /\ frame_pc' = "sent"
    /\ UNCHANGED <<rgb_array, byte_data, robotVars, gestVars, lcdVars>>

NextFrame == SetWindow \/ ConvertFrame \/ SendChunks

SpecFrame == InitFrame /\ [][NextFrame]_vars

\* the 16-bit word at pixel position k of the byte stream
WordAt(k) == byte_data[2 * k - 1] * 256 + byte_data[2 * k]

\* the pixel at row-major position k of the frame
PixelAt(k) == rgb_array[((k - 1) \div Cols(rgb_array)) + 1][((k - 1) % Cols(rgb_array)) + 1]

SameFields(p, q) ==
    /\ p[1] \div 8 = q[1] \div 8
    /\ p[2] \div 4 = q[2] \div 4
    /\ p[3] \div 8 = q[3] \div 8

\* C16: once converted, the stream holds two bytes per pixel, each 0..255,
\* high byte first, in row-major order of the frame; the word of a pixel
\* has r >> 3 in its top 5 bits, g >> 2 in its middle 6 bits and b >> 3 in
\* its low 5 bits, each field truncated and none spilling into another; so
\* two pixels have the same word exactly when they agree on the three fields.
Thm_C16 ==
    frame_pc \in {"packed", "sent"} =>
        LET n == Rows(rgb_array) * Cols(rgb_array) IN
        /\ Len(byte_data) = 2 * n
        /\ \A k \in 1..(2 * n) : byte_data[k] \in 0..255
        /\ \A y \in 1..Rows(rgb_array) : \A x \in 1..Cols(rgb_array) :
              LET word == WordAt((y - 1) * Cols(rgb_array) + x)
                  pixel == rgb_array[y][x] IN
              /\ word \div 2048 = pixel[1] \div 8
              /\ (word \div 32) % 64 = pixel[2] \div 4
              /\ word % 32 = pixel[3] \div 8
        /\ \A i, j \in 1..Min(n, MaxPairs) :
              (WordAt(i) = WordAt(j)) <=> SameFields(PixelAt(i), PixelAt(j))

\* A frame of two rows has been converted whose first pixel is white and
\* in which two different pixels share a word.
Wit_C16 ==
    /\ frame_pc = "packed"
    /\ Rows(rgb_array) = 2
    /\ Cols(rgb_array) >= 2
    /\ rgb_array[1][1] = <<255, 255, 255>>
    /\ WordAt(1) = 65535
    /\ \E i, j \in 1..Min(Rows(rgb_array) * Cols(rgb_array), MaxPairs) :
          PixelAt(i) # PixelAt(j) /\ WordAt(i) = WordAt(j)

\* set_window makes five transfers; the pixel bursts follow them
WindowLen == Len(set_window(0, 0, 0, 0))

\* the bytes of the j-th pixel burst
Burst(j) == transfers[WindowLen + j][2]

\* C17: for a stream of L bytes the chunk loop makes ceil(L / 4096)
\* transfers, in order, each non-empty and at most 4096 bytes, every one
\* but the last of exactly 4096 bytes, and their concatenation is the stream.
Thm_C17 ==
    frame_pc = "sent" =>
        LET L == Len(byte_data)
            n == Len(transfers) - WindowLen IN
        /\ n = (L + chunk_size - 1) \div chunk_size
        /\ \A j \in 1..n : Len(Burst(j)) \in 1..chunk_size
        /\ \A j \in 1..(n - 1) : Len(Burst(j)) = chunk_size
        /\ (n > 0 => Len(Burst(n)) = L - (n - 1) * chunk_size)
        /\ \A k \in 1..L :
              Burst(((k - 1) \div chunk_size) + 1)[((k - 1) % chunk_size) + 1]
                  = byte_data[k]

\* A stream of 8196 bytes has gone out as 4096 + 4096 + 4 bytes.
Wit_C17 ==
    /\ frame_pc = "sent"
    /\ Len(byte_data) = 2 * chunk_size + 4
    /\ Len(transfers) = WindowLen + 3
    /\ Len(Burst(3)) = 4

---------------------------------------------------------------------------
(* ILI9486SPI: the driver of the SPI panel             (lcd_spi_driver.py)  *)

\* Panels of at most MaxDim pixels are driven.
MaxDim == 2

\* Rotations -1..MaxRotation are passed to the constructor.
MaxRotation == 4

\* time.sleep oversleeps by 0 or MaxJitter ms.
MaxJitter == 3

\* module import probe: GPIO_AVAILABLE, USE_GPIOD
GPIO_AVAILABLE == gpiod_importable \/ rpigpio_importable
USE_GPIOD == gpiod_importable

PanelSizes == { size \in (1..MaxDim) \X (1..MaxDim) : size[1] * size[2] <= MaxDim }

Rotations == (-1)..MaxRotation

\* ILI9486SPI(width, height, rotation) and the oversleep of the host: every
\* rotation and oversleep on the smallest panel, every panel at the default
\* rotation (rotation=1, line 53).
ConstructorArgs ==
    ({<<1, 1>>} \X Rotations \X {0, MaxJitter})
    \cup (PanelSizes \X {1} \X {0})

\* FaceDisplay.EXPRESSIONS
EXPRESSIONS == {"happy", "sad", "neutral", "listening", "speaking", "thinking", "error"}

\* what _load_images can leave in the cache: every face, every face but one
\* whose file is missing or unreadable, none when the directory is missing
LoadedSets == { EXPRESSIONS, EXPRESSIONS \ {"error"}, {} }

\* the expressions asked for: two known ones and an unknown one
RequestedExpressions == {"happy", "error", "wink"}

Palette == { <<0, 0, 0>>, <<255, 130, 7>> }

Checker(size, c1, c2) ==
    [y \in 1..size[2] |-> [x \in 1..size[1] |-> IF (x + y) % 2 = 0 THEN c1 ELSE c2]]

ImagesOfSize(size) ==
    { Solid(size, c) : c \in Palette }
    \cup { Checker(size, c[1], c[2]) : c \in Palette \X Palette }

\* the images handed to display_image: those of the panel's size, and one
\* of every other size
LcdImages ==
    ImagesOfSize(<<lcd_width, lcd_height>>)
    \cup { Solid(size, <<0, 0, 0>>) : size \in PanelSizes \ {<<lcd_width, lcd_height>>} }

SizeOf(image) == << Cols(image), Rows(image) >>

\* Plausible slip: the image is sent as it came.
NotResized(image) == {image}

\* `if image.size != (self.width, self.height): image = image.resize(...)`.
\* The resampled values are not computed: a resized image is any image of
\* the panel's size.
Resized(image) ==
    IF SizeOf(image) # <<lcd_width, lcd_height>>
    THEN ImagesOfSize(<<lcd_width, lcd_height>>)
    ELSE {image}

\* Plausible slip: an unknown rotation falls back to rotation 0.
rotation_madctl_normal(r) ==
    CASE r = 0 -> 8 [] r = 1 -> 40 [] r = 2 -> 200 [] r = 3 -> 232 [] OTHER -> 8

\* rotation_madctl.get(self.rotation, 0x28)
rotation_madctl(r) ==
    CASE r = 0 -> 8 [] r = 1 -> 40 [] r = 2 -> 200 [] r = 3 -> 232 [] OTHER -> 40

\* How many of n transfers are made before one raises: none when the lines
\* were released or the SPI handle is closed, any number on a faulty bus.
TransferOutcomes(n) ==
    IF ~(lines_held /\ spi_is_open) THEN {0}
    ELSE IF spi_faulty THEN 0..n
    ELSE {n}

---------------------------------------------------------------------------
(* ILI9486SPI.__init__ and _init_display                                   *)

InitLcd ==
    /\ force_text_mode = FALSE
    /\ microphone_available = FALSE
    /\ servo_hw = FALSE
    /\ display_backend = "hardware"
    /\ pc = "lcd"
    /\ running = FALSE
    /\ use_voice = FALSE
    /\ user_input = <<>>
    /\ gesture_name = "None"
    /\ response = ""
    /\ demo_i = 1
    /\ spk_ret = "none"
    /\ left_position = 90
    /\ right_position = 90
    /\ current_expression = "None"
    /\ closed = <<>>
    /\ use_after_close = FALSE
    /\ log = <<>>
    /\ sigints = 0
    /\ sig_in_turn = FALSE
    /\ loop_exit = "none"
    /\ listen_called = FALSE
    /\ shutdown_runs = 0
    /\ g_input = <<>>
    /\ g_result = "pending"
    /\ FrameIdle
    /\ gpiod_importable \in BOOLEAN
    /\ rpigpio_importable \in BOOLEAN
    /\ chip_openable \in {b \in BOOLEAN : b => gpiod_importable}
    /\ lines_free \in {b \in BOOLEAN : b => chip_openable}
    /\ rpigpio_usable \in {b \in BOOLEAN : b => rpigpio_importable}
    /\ spi_openable \in BOOLEAN
    /\ spi_faulty \in {b \in BOOLEAN : b => spi_openable}
    /\ \E args \in ConstructorArgs :
          /\ lcd_width = args[1][1] /\ lcd_height = args[1][2]
          /\ rotation = args[2]
          /\ sleep_jitter = args[3]
    /\ lcd_pc = "new"
    /\ lines_held = FALSE
    /\ spi_is_open = FALSE
    /\ dc = 0
    /\ rst = 0
    /\ bl = 0
    /\ clock = 0
    /\ init_wire = <<>>
    /\ wire = <<>>
    /\ last_call = <<"none">>
    /\ close_calls = 0
    /\ io_after_close = FALSE
    /\ fd_pc = "idle"
    /\ has_framebuffer = FALSE
    /\ image_cache = EXPRESSIONS
    /\ fd_ret = FdNone

LcdQuiet == UNCHANGED <<cfgVars, ctlVars, left_position, right_position, closed,
                        use_after_close, obsVars, gestVars, frameVars, hostVars,
                        argVars, has_framebuffer>>

NoCall == UNCHANGED <<wire, last_call, close_calls, io_after_close, fd_pc, faceVars>>

\* time.sleep(ms / 1000)
Sleep(ms) == clock' = clock + ms + sleep_jitter

\* __init__, lines 77-166: the GPIO backend.  gpiod is taken whenever it was
\* imported; RPi.GPIO only when gpiod could not be imported.
SetupGpio ==
    /\ lcd_pc = "new"
    /\ IF GPIO_AVAILABLE /\ USE_GPIOD
       THEN IF chip_openable /\ lines_free
            THEN lines_held' = TRUE /\ lcd_pc' = "spi"
            ELSE lines_held' = FALSE /\ lcd_pc' = "failed"
       ELSE IF GPIO_AVAILABLE /\ ~USE_GPIOD
            THEN IF rpigpio_usable
                 THEN lines_held' = TRUE /\ lcd_pc' = "spi"
                 ELSE lines_held' = FALSE /\ lcd_pc' = "failed"
            ELSE lines_held' = FALSE /\ lcd_pc' = "failed"
    /\ UNCHANGED <<spi_is_open, dc, rst, bl, clock, init_wire>>
    /\ NoCall /\ LcdQuiet

\* __init__, lines 168-172: spidev.SpiDev().open(bus, device)
OpenSpi ==
    /\ lcd_pc = "spi"
    /\ IF spi_openable
       THEN spi_is_open' = TRUE /\ lcd_pc' = "rst_high"
       ELSE spi_is_open' = FALSE /\ lcd_pc' = "failed"
    /\ UNCHANGED <<lines_held, dc, rst, bl, clock, init_wire>>
    /\ NoCall /\ LcdQuiet

\* _set_rst(value); time.sleep(ms / 1000)
ResetStep(value, ms, next) ==
    /\ rst' = value
    /\ init_wire' = Append(init_wire, <<"rst", value, clock>>)
    /\ Sleep(ms)
    /\ lcd_pc' = next
    /\ UNCHANGED <<lines_held, spi_is_open, dc, bl>>
    /\ NoCall /\ LcdQuiet

\* Transfers of _init_display, then time.sleep(ms / 1000); a transfer that
\* raises ends the construction.
InitStep(plan, ms, next) ==
    /\ \E k \in TransferOutcomes(Len(plan)) :
          /\ init_wire' = init_wire \o
                 [j \in 1..k |-> <<"xfer", plan[j][1], plan[j][2], clock>>]
          /\ dc' = IF k < Len(plan) THEN plan[k + 1][1] ELSE plan[k][1]
          /\ IF k = Len(plan)
             THEN Sleep(ms) /\ lcd_pc' = next
             ELSE UNCHANGED clock /\ lcd_pc' = "failed"
    /\ UNCHANGED <<lines_held, spi_is_open, rst, bl>>
    /\ NoCall /\ LcdQuiet

InitResetHigh == lcd_pc = "rst_high" /\ ResetStep(1, 10, "rst_low")

InitResetLow == lcd_pc = "rst_low" /\ ResetStep(0, 10, "rst_release")

\* Plausible slip: the settle after the reset pulse is 10 ms.
InitResetReleaseShort == lcd_pc = "rst_release" /\ ResetStep(1, 10, "swreset")

InitResetRelease == lcd_pc = "rst_release" /\ ResetStep(1, 120, "swreset")

InitSoftwareReset ==
    lcd_pc = "swreset" /\ InitStep(<<Command(CMD_SWRESET)>>, 120, "slpout")

\* Plausible slip: the software reset is sent again in place of sleep-out.
InitSleepOutMissing ==
    lcd_pc = "slpout" /\ InitStep(<<Command(CMD_SWRESET)>>, 120, "pixfmt")

InitSleepOut ==
    lcd_pc = "slpout" /\ InitStep(<<Command(CMD_SLPOUT)>>, 120, "pixfmt")

InitPixelFormat ==
    lcd_pc = "pixfmt" /\ InitStep(<<Command(CMD_PIXFMT), Data(<<85>>)>>, 0, "madctl")

InitMadctl ==
    /\ lcd_pc = "madctl"
    /\ InitStep(<<Command(CMD_MADCTL), Data(<<rotation_madctl(rotation)>>)>>, 0, "dispon")

InitDisplayOn ==
    lcd_pc = "dispon" /\ InitStep(<<Command(CMD_DISPON)>>, 20, "backlight")

\* _set_bl(1): construction is complete
InitBacklight ==
    /\ lcd_pc = "backlight"
    /\ bl' = 1
    /\ lcd_pc' = "on"
    /\ UNCHANGED <<lines_held, spi_is_open, dc, rst, clock, init_wire>>
    /\ NoCall /\ LcdQuiet

---------------------------------------------------------------------------
(* Calls on the constructed driver                                         *)

CanCall == lcd_pc = "on"

\* The transfers of one call: the first k of the plan are made.  A line
\* write or a transfer on a closed driver raises before anything is sent.
Transmit(op, image, size_out, plan, k) ==
    /\ wire' = SubSeq(plan, 1, k)
    /\ dc' = IF ~lines_held THEN dc
             ELSE IF k < Len(plan) THEN plan[k + 1][1] ELSE plan[k][1]
    /\ last_call' = << op, k < Len(plan), image, size_out, close_calls > 0 >>
    /\ io_after_close' = (io_after_close \/ (close_calls > 0 /\ (k > 0 \/ lines_held)))
    /\ UNCHANGED <<lines_held, spi_is_open, rst, bl, clock, init_wire, lcd_pc,
                   close_calls>>
    /\ LcdQuiet

\* ILI9486SPI.display_image(image), also as called by FaceDisplay.set_expression
DisplayImage ==
    /\ CanCall /\ fd_pc # "closing"
    /\ \E image \in LcdImages : \E frame \in Resized(image) :
       \E plan \in {FrameTransfers(frame)} : \E k \in TransferOutcomes(Len(plan)) :
          Transmit("display_image", image, SizeOf(frame), plan, k)
    /\ UNCHANGED <<fd_pc, faceVars>>

\* ILI9486SPI.clear(color)
Clear ==
    /\ CanCall /\ fd_pc # "closing"
    /\ \E color \in Palette :
       LET img == Solid(<<lcd_width, lcd_height>>, color) IN
       \E frame \in Resized(img) :
       \E plan \in {FrameTransfers(frame)} : \E k \in TransferOutcomes(Len(plan)) :
          Transmit("clear", img, SizeOf(frame), plan, k)
    /\ UNCHANGED <<fd_pc, faceVars>>

\* Plausible slip: close() releases everything without writing the backlight.
CloseLeavesBacklight(op, next) ==
    /\ wire' = <<>>
    /\ fd_pc' = next
    /\ spi_is_open' = FALSE
    /\ lines_held' = FALSE
    /\ close_calls' = close_calls + 1
    /\ last_call' = << op, FALSE, <<>>, <<0, 0>>, close_calls > 0 >>
    /\ UNCHANGED <<bl, io_after_close, dc, rst, clock, init_wire, lcd_pc>>
    /\ LcdQuiet

\* Plausible slip: close() leaves the lines requested and the handle open.
CloseKeepsHandles(op, next) ==
    /\ wire' = <<>>
    /\ fd_pc' = next
    /\ bl' = 0
    /\ close_calls' = close_calls + 1
    /\ last_call' = << op, FALSE, <<>>, <<0, 0>>, close_calls > 0 >>
    /\ UNCHANGED <<spi_is_open, lines_held, io_after_close>>
    /\ UNCHANGED <<dc, rst, clock, init_wire, lcd_pc>>
    /\ LcdQuiet

\* close(): backlight off, spi.close(), the lines released (or GPIO.cleanup()).
\* On a closed driver the backlight write raises and nothing else is done.
CloseDriver(op, next) ==
    /\ wire' = <<>>
    /\ fd_pc' = next
    /\ IF lines_held
       THEN /\ bl' = 0
            /\ spi_is_open' = FALSE
            /\ lines_held' = FALSE
            /\ close_calls' = close_calls + 1
            /\ last_call' = << op, FALSE, <<>>, <<0, 0>>, close_calls > 0 >>
            /\ io_after_close' = (io_after_close \/ close_calls > 0)
       ELSE /\ last_call' = << op, TRUE, <<>>, <<0, 0>>, close_calls > 0 >>
            /\ UNCHANGED <<bl, spi_is_open, lines_held, close_calls, io_after_close>>
    /\ UNCHANGED <<dc, rst, clock, init_wire, lcd_pc>>
    /\ LcdQuiet

\* ILI9486SPI.close()
Close ==
    /\ CanCall /\ fd_pc # "closing"
    /\ CloseDriver("close", fd_pc)
    /\ UNCHANGED faceVars

---------------------------------------------------------------------------
(* FaceDisplay                                           (face_display.py)  *)

\* the display backend was chosen: the framebuffer exists, or the SPI driver
\* was constructed, or its construction failed and the pygame window is used
FdBackendChosen == has_framebuffer \/ lcd_pc \in {"on", "failed"}

FdReady == fd_pc # "init" /\ FdBackendChosen

Backend ==
    IF has_framebuffer THEN "framebuffer"
    ELSE IF lcd_pc = "on" THEN "spi"
    ELSE "window"

\* the driver is not called
DriverIdle == UNCHANGED <<lcd_pc, pinVars, lcdObsVars>> /\ LcdQuiet

\* a FaceDisplay call and how it ended; shown is the expression of the
\* latest set_expression that returned True since the latest clear that
\* succeeded, "None" when there is none
FdCall(op, e, result, write) ==
    [ op |-> op, expression |-> e, result |-> result, before |-> current_expression,
      loaded |-> e \in image_cache, write |-> write, prev_write |-> fd_ret.write,
      shown |-> IF op = "set_expression" /\ result = "True" THEN e
                ELSE IF op # "set_expression" /\ write = "ok" THEN "None"
                ELSE fd_ret.shown ]

\* the image cached for an expression, of the panel's size (_load_images)
FaceImage(e) ==
    IF e = "happy"
    THEN Checker(<<lcd_width, lcd_height>>, <<255, 130, 7>>, <<0, 0, 0>>)
    ELSE Solid(<<lcd_width, lcd_height>>, <<255, 130, 7>>)

\* Plausible slip: current_expression is assigned before the write.
HardwareWriteSetsFirst(e, complete) ==
    IF complete THEN <<"True", e>> ELSE <<"False", e>>

\* Plausible slip: the write is not in a try.
HardwareWriteUncaught(e, complete) ==
    IF complete THEN <<"True", e>> ELSE <<"raised", current_expression>>

\* set_expression on the framebuffer or the SPI panel: the value returned
\* and the new current_expression
HardwareWrite(e, complete) ==
    IF complete THEN <<"True", e>> ELSE <<"False", current_expression>>

\* set_expression in the pygame window: a failed draw is reported and the
\* call succeeds
WindowWrite(e, complete) == <<"True", e>>

\* __init__ is over: the backend is chosen and _load_images has run
FdInit ==
    /\ fd_pc = "init"
    /\ FdBackendChosen
    /\ fd_pc' = "idle"
    /\ image_cache' \in LoadedSets
    /\ UNCHANGED <<current_expression, fd_ret>>
    /\ DriverIdle

\* FaceDisplay.set_expression(expression)
FdSetExpression ==
    /\ FdReady /\ fd_pc \in {"idle", "closed"}
    /\ UNCHANGED <<fd_pc, image_cache>>
    /\ \E e \in RequestedExpressions :
       IF e \notin EXPRESSIONS \/ e \notin image_cache
       THEN /\ fd_ret' = FdCall("set_expression", e, "False", "none")
            /\ UNCHANGED current_expression
            /\ DriverIdle
       ELSE IF Backend = "spi"
       THEN \E plan \in {FrameTransfers(FaceImage(e))} :
            \E k \in TransferOutcomes(Len(plan)) :
               LET out == HardwareWrite(e, k = Len(plan)) IN
               /\ Transmit("fd_set_expression", FaceImage(e), SizeOf(FaceImage(e)), plan, k)
               /\ current_expression' = out[2]
               /\ fd_ret' = FdCall("set_expression", e, out[1],
                                   IF k = Len(plan) THEN "ok" ELSE "failed")
       ELSE \E complete \in BOOLEAN :
               LET out == IF Backend = "framebuffer" THEN HardwareWrite(e, complete)
                          ELSE WindowWrite(e, complete) IN
               /\ current_expression' = out[2]
               /\ fd_ret' = FdCall("set_expression", e, out[1],
                                   IF complete THEN "ok" ELSE "failed")
               /\ DriverIdle

\* FaceDisplay.clear(): on the framebuffer and on the SPI panel a failed
\* write is caught; the pygame window branch has no try.  A clear that
\* returns goes on to next.
FdClearCall(op, next) ==
    IF Backend = "spi"
    THEN LET frame == Solid(<<lcd_width, lcd_height>>, <<0, 0, 0>>) IN
         \E plan \in {FrameTransfers(frame)} : \E k \in TransferOutcomes(Len(plan)) :
            /\ Transmit(op, frame, SizeOf(frame), plan, k)
            /\ current_expression' = IF k = Len(plan) THEN "None" ELSE current_expression
            /\ fd_ret' = FdCall(op, "None", "None", IF k = Len(plan) THEN "ok" ELSE "failed")
            /\ fd_pc' = next
    ELSE \E complete \in BOOLEAN :
            /\ current_expression' = IF complete THEN "None" ELSE current_expression
            /\ fd_ret' = FdCall(op, "None",
                                IF complete \/ Backend = "framebuffer" THEN "None" ELSE "raised",
                                IF complete THEN "ok" ELSE "failed")
            /\ fd_pc' = IF complete \/ Backend = "framebuffer" THEN next ELSE fd_pc
            /\ DriverIdle

\* shutdown_sequence: self.display.clear()
FdClear ==
    /\ FdReady /\ fd_pc = "idle"
    /\ FdClearCall("fd_clear", "idle")
    /\ UNCHANGED image_cache

\* shutdown_sequence: self.display.close(), first self.clear() ...
FdCloseClear ==
    /\ FdReady /\ fd_pc = "idle"
    /\ FdClearCall("fd_close_clear", "closing")
    /\ UNCHANGED image_cache

\* ... then image_cache.clear() and, if there is a driver, spi_driver.close()
\* in a try
FdCloseDriver ==
    /\ FdReady /\ fd_pc = "closing"
    /\ image_cache' = {}
    /\ UNCHANGED <<current_expression, fd_ret>>
    /\ IF lcd_pc = "on"
       THEN CloseDriver("fd_close", "closed")
       ELSE fd_pc' = "closed" /\ DriverIdle

NextLcd ==
    \/ SetupGpio \/ OpenSpi
    \/ InitResetHigh \/ InitResetLow \/ InitResetRelease
    \/ InitSoftwareReset \/ InitSleepOut \/ InitPixelFormat \/ InitMadctl
    \/ InitDisplayOn \/ InitBacklight
    \/ DisplayImage \/ Clear \/ Close
    \/ FdClear \/ FdCloseClear \/ FdCloseDriver

SpecLcd == InitLcd /\ [][NextLcd]_vars

---------------------------------------------------------------------------
(* FaceDisplay over its three backends                                     *)

\* FaceDisplay.__init__: the framebuffer exists, or the SPI driver is
\* constructed on a host where it can or cannot be.
InitFace ==
    /\ force_text_mode = FALSE
    /\ microphone_available = FALSE
    /\ servo_hw = FALSE
    /\ display_backend = "hardware"
    /\ pc = "face"
    /\ running = FALSE
    /\ use_voice = FALSE
    /\ user_input = <<>>
    /\ gesture_name = "None"
    /\ response = ""
    /\ demo_i = 1
    /\ spk_ret = "none"
    /\ left_position = 90
    /\ right_position = 90
    /\ current_expression = "None"
    /\ closed = <<>>
    /\ use_after_close = FALSE
    /\ log = <<>>
    /\ sigints = 0
    /\ sig_in_turn = FALSE
    /\ loop_exit = "none"
    /\ listen_called = FALSE
    /\ shutdown_runs = 0
    /\ g_input = <<>>
    /\ g_result = "pending"
    /\ FrameIdle
    /\ has_framebuffer \in BOOLEAN
    /\ gpiod_importable \in {b \in BOOLEAN : b => ~has_framebuffer}
    /\ chip_openable = gpiod_importable
    /\ lines_free = gpiod_importable
    /\ spi_openable = gpiod_importable
    /\ rpigpio_importable = FALSE
    /\ rpigpio_usable = FALSE
    /\ spi_faulty \in {b \in BOOLEAN : b => spi_openable}
    /\ sleep_jitter = 0
    /\ \E size \in PanelSizes : lcd_width = size[1] /\ lcd_height = size[2]
    /\ rotation = 1
    /\ lcd_pc = IF has_framebuffer THEN "idle" ELSE "new"
    /\ lines_held = FALSE
    /\ spi_is_open = FALSE
    /\ dc = 0
    /\ rst = 0
    /\ bl = 0
    /\ clock = 0
    /\ init_wire = <<>>
    /\ wire = <<>>
    /\ last_call = <<"none">>
    /\ close_calls = 0
    /\ io_after_close = FALSE
    /\ fd_pc = "init"
    /\ image_cache = {}
    /\ fd_ret = FdNone

NextFace ==
    \/ SetupGpio \/ OpenSpi
    \/ InitResetHigh \/ InitResetLow \/ InitResetRelease
    \/ InitSoftwareReset \/ InitSleepOut \/ InitPixelFormat \/ InitMadctl
    \/ InitDisplayOn \/ InitBacklight
    \/ FdInit \/ FdSetExpression \/ FdClear \/ FdCloseClear \/ FdCloseDriver

SpecFace == InitFace /\ [][NextFace]_vars

---------------------------------------------------------------------------
(* ServoController on its own: any sequence of its operations.  The log    *)
(* holds the latest operation: the call with the positions before it, the  *)
(* moves it made and what it returned.                                     *)

ServoArms == {"left", "right", "head"}

\* angles asked of set_arm_angle: below the range, its ends, inside, above
RequestedAngles == {0 - MaxOvershoot, 0, 90, 180, 180 + MaxOvershoot}

\* angles asked of set_both_arms
RequestedPairs == { <<180 + MaxOvershoot, 0 - MaxOvershoot>>, <<0, 180>> }

Abs(x) == IF x < 0 THEN 0 - x ELSE x

\* steps = max(int(abs(target_angle - current_angle)), 1)
StepsOf(current_angle, target_angle) ==
    IF Abs(target_angle - current_angle) < 1 THEN 1 ELSE Abs(target_angle - current_angle)

\* the writes `servo_obj.angle = ...` of one set_arm_angle that completes:
\* none in simulation, steps + 1 when smooth, one otherwise
WritesOf(current_angle, target_angle, smooth) ==
    IF ~servo_hw THEN 0
    ELSE IF smooth THEN StepsOf(current_angle, target_angle) + 1
    ELSE 1

\* the write that raises: the first, a middle one or the last
FailingWrites(n) == {1, (n + 1) \div 2, n}

\* wave(repetitions)
WaveMoves(repetitions) ==
    << <<"right", angles.neutral>> >> \o WaveStrokes(repetitions)
    \o << <<"left", angles.neutral>> >>

\* The moves of an operation of which the first k set_arm_angle calls
\* complete and, if there is another, its write number f raises: arm,
\* current angle, clamped target angle, smooth, steps, writes attempted.
ServoTrace(pos, moves, smooth, k, f) ==
    [ j \in 1..Min(k + 1, Len(moves)) |->
        LET before == AfterMoves(pos, moves, j - 1)
            current_angle == IF moves[j][1] = "left" THEN before[1] ELSE before[2]
            angle == ClampAngle(moves[j][2])
        IN  << "move", moves[j][1], current_angle, angle, smooth,
               StepsOf(current_angle, angle),
               IF j <= k THEN WritesOf(current_angle, angle, smooth) ELSE f >> ]

ServoQuiet ==
    UNCHANGED <<cfgVars, ctlVars, current_expression, closed, use_after_close,
                sigints, sig_in_turn, loop_exit, listen_called, shutdown_runs,
                gestVars, frameVars, lcdVars>>

\* An operation that makes the given set_arm_angle calls and returns ret; a
\* write that raises ends it and leaves the position of the arm being moved
\* as it was.
ServoRun(op, args, moves, smooth, ret) ==
    LET pos == <<left_position, right_position>>
        call == << <<"call", op, args, pos>> >>
    IN
    \E k \in ServoOutcomes(moves) :
        LET after == AfterMoves(pos, moves, k)
            before == AfterMoves(pos, moves, Min(k, Len(moves) - 1))
            arm == moves[Min(k + 1, Len(moves))]
            n == WritesOf(IF arm[1] = "left" THEN before[1] ELSE before[2],
                          ClampAngle(arm[2]), smooth)
        IN
        /\ left_position' = after[1]
        /\ right_position' = after[2]
        /\ IF k = Len(moves)
           THEN log' = call \o ServoTrace(pos, moves, smooth, k, 0) \o << <<"ret", ret>> >>
           ELSE \E f \in FailingWrites(n) :
                   log' = call \o ServoTrace(pos, moves, smooth, k, f)
                               \o << <<"ret", "raised">> >>
        /\ ServoQuiet

InitServo ==
    /\ force_text_mode = FALSE
    /\ microphone_available = FALSE
    /\ servo_hw \in BOOLEAN
    /\ display_backend = "window"
    /\ pc = "servos"
    /\ running = FALSE
    /\ use_voice = FALSE
    /\ user_input = <<>>
    /\ gesture_name = "None"
    /\ response = ""
    /\ demo_i = 1
    /\ spk_ret = "none"
    /\ left_position = 90
    /\ right_position = 90
    /\ current_expression = "None"
    /\ closed = <<>>
    /\ use_after_close = FALSE
    /\ log = <<>>
    /\ sigints = 0
    /\ sig_in_turn = FALSE
    /\ loop_exit = "none"
    /\ listen_called = FALSE
    /\ shutdown_runs = 0
    /\ g_input = <<>>
    /\ g_result = "pending"
    /\ FrameIdle
    /\ LcdIdle

\* set_arm_angle(arm, angle, smooth)
SetArmAngle ==
    /\ pc = "servos"
    /\ \E arm \in ServoArms : \E angle \in RequestedAngles : \E smooth \in BOOLEAN :
          IF arm \in {"left", "right"}
          THEN ServoRun("set_arm_angle", <<arm, angle, smooth>>, << <<arm, angle>> >>,
                        smooth, "True")
          ELSE /\ log' = << <<"call", "set_arm_angle", <<arm, angle, smooth>>,
                              <<left_position, right_position>> >>,
                            <<"ret", "False">> >>
               /\ UNCHANGED <<left_position, right_position>>
               /\ ServoQuiet

\* set_both_arms(left_angle, right_angle, smooth)
SetBothArms ==
    /\ pc = "servos"
    /\ \E pair \in RequestedPairs : \E smooth \in BOOLEAN :
          ServoRun("set_both_arms", <<pair[1], pair[2], smooth>>,
                   << <<"left", pair[1]>>, <<"right", pair[2]>> >>, smooth, "None")

\* neutral(), arms_up(), arms_down(), point(), reset()
ServoGesture ==
    /\ pc = "servos"
    /\ \E g \in {"neutral", "arms_up", "arms_down", "point", "reset"} :
          ServoRun(g, <<>>, GestureMoves(g), TRUE, "None")

\* wave(repetitions)
ServoWave ==
    /\ pc = "servos"
    /\ \E repetitions \in 0..MaxRepetitions :
          ServoRun("wave", <<repetitions>>, WaveMoves(repetitions), TRUE, "None")

NextServo == SetArmAngle \/ SetBothArms \/ ServoGesture \/ ServoWave

SpecServo == InitServo /\ [][NextServo]_vars

---------------------------------------------------------------------------
(* Claims on the driver                                                    *)

IsCommand(e) == e[1] = "xfer" /\ e[2] = 0

InitXfers == SelectSeq(init_wire, LAMBDA e : e[1] = "xfer")

\* the command bytes sent during construction, in order
InitCommands ==
    LET cmds == SelectSeq(init_wire, IsCommand) IN
    [i \in 1..Len(cmds) |-> cmds[i][3][1]]

\* the data transfer that follows command cmd during construction
DataAfter(cmd) ==
    { InitXfers[i + 1][3] : i \in { j \in 1..(Len(InitXfers) - 1) :
          /\ InitXfers[j][2] = 0 /\ InitXfers[j][3] = <<cmd>>
          /\ InitXfers[j + 1][2] = 1 } }

\* the command bytes of the latest call
WireCommands == { wire[i][2][1] : i \in { j \in 1..Len(wire) : wire[j][1] = 0 } }

\* C11: construction sends 0x01, 0x11, 0x3A (data 0x55), 0x36 (data: the
\* rotation byte), 0x29, each once and in this order, one per lifecycle step;
\* the constructed driver has sent all five, and no call of display_image,
\* clear or close sends any of them again.
Thm_C11 ==
    /\ InitCommands =
          CASE lcd_pc \in {"new", "spi", "rst_high", "rst_low", "rst_release", "swreset"}
                  -> <<>>
            [] lcd_pc = "slpout" -> <<1>>
            [] lcd_pc = "pixfmt" -> <<1, 17>>
            [] lcd_pc = "madctl" -> <<1, 17, 58>>
            [] lcd_pc = "dispon" -> <<1, 17, 58, 54>>
            [] lcd_pc \in {"backlight", "on"} -> <<1, 17, 58, 54, 41>>
            [] OTHER -> InitCommands
    /\ IsPrefix(InitCommands, <<1, 17, 58, 54, 41>>)
    /\ lcd_pc \in {"dispon", "backlight", "on"} =>
          /\ DataAfter(58) = {<<85>>}
          /\ DataAfter(54) = {<<rotation_madctl(rotation)>>}
    /\ \A cmd \in {1, 17, 41} : DataAfter(cmd) = {}
    /\ WireCommands \cap {1, 17, 58, 54, 41} = {}

Wit_C11 ==
    /\ lcd_pc = "on"
    /\ InitCommands = <<1, 17, 58, 54, 41>>
    /\ last_call[1] = "display_image" /\ ~last_call[2]
    /\ 44 \in WireCommands
    /\ rotation = 3

\* the writes to the RESET line during construction
ResetWrites == SelectSeq(init_wire, LAMBDA e : e[1] = "rst")

\* C12: the RESET line is written high, low, high before anything is
\* transferred; the low phase lasts at least 10 ms and at least 120 ms pass
\* between the release and the software reset, which is the first transfer;
\* every later transfer comes at least 120 ms after the software reset.
Thm_C12 ==
    /\ IsPrefix([i \in 1..Len(ResetWrites) |-> ResetWrites[i][2]], <<1, 0, 1>>)
    /\ Len(InitXfers) > 0 =>
          /\ Len(ResetWrites) = 3
          /\ SubSeq(init_wire, 1, 3) = ResetWrites
          /\ InitXfers[1][2] = 0 /\ InitXfers[1][3] = <<1>>
          /\ InitXfers[1][4] - ResetWrites[3][3] >= 120
    /\ Len(ResetWrites) = 3 => ResetWrites[3][3] - ResetWrites[2][3] >= 10
    /\ \A j \in 2..Len(InitXfers) : InitXfers[j][4] - InitXfers[1][4] >= 120
    /\ lcd_pc = "on" => Len(InitXfers) = 7

Wit_C12 ==
    /\ lcd_pc = "on"
    /\ sleep_jitter = 0
    /\ ResetWrites = << <<"rst", 1, 0>>, <<"rst", 0, 10>>, <<"rst", 1, 20>> >>
    /\ InitXfers[1][4] = 140
    /\ InitXfers[2][4] = 260
    /\ clock = 400

\* C13: the backlight line is high only when display-on (0x29) has been sent
\* and close() has not been called; it is low until construction is complete
\* and after close().
Thm_C13 ==
    /\ bl \in {0, 1}
    /\ bl = 1 =>
          /\ \E i \in 1..Len(InitCommands) : InitCommands[i] = 41
          /\ close_calls = 0
          /\ last_call[1] \notin {"close", "fd_close"}
    /\ lcd_pc # "on" => bl = 0
    /\ close_calls > 0 => bl = 0

Wit_C13 ==
    /\ bl = 1
    /\ last_call[1] = "display_image"
    /\ fd_pc = "idle"
    /\ USE_GPIOD

\* C14: transfers are made only by calls on a constructed driver that has
\* not been closed; close() succeeds once, after it the backlight is low,
\* the SPI handle is closed and the lines are released, and every later call
\* raises before any transfer or line write; FaceDisplay.close() leaves the
\* driver closed.
Thm_C14 ==
    /\ wire # <<>> => lcd_pc = "on" /\ ~last_call[5]
    /\ last_call[1] # "none" /\ last_call[5] => last_call[2] /\ wire = <<>>
    /\ close_calls <= 1
    /\ close_calls > 0 => bl = 0 /\ ~spi_is_open /\ ~lines_held
    /\ ~io_after_close
    /\ fd_pc = "closed" /\ lcd_pc = "on" => close_calls = 1

Wit_C14 ==
    /\ fd_pc = "closed"
    /\ close_calls = 1
    /\ last_call[1] = "display_image"
    /\ last_call[5] /\ last_call[2]
    /\ wire = <<>>

\* C15: the data byte sent after 0x36 is 0x08, 0x28, 0xC8, 0xE8 for
\* rotation 0, 1, 2, 3 and 0x28 for any other rotation.
Thm_C15 ==
    LET byte == IF rotation = 0 THEN 8
                ELSE IF rotation = 1 THEN 40
                ELSE IF rotation = 2 THEN 200
                ELSE IF rotation = 3 THEN 232
                ELSE 40
    IN  /\ DataAfter(54) \subseteq {<<byte>>}
        /\ lcd_pc \in {"dispon", "backlight", "on"} => DataAfter(54) = {<<byte>>}

Wit_C15 ==
    /\ lcd_pc = "on"
    /\ rotation \notin 0..3
    /\ DataAfter(54) = {<<40>>}

\* the operations that send a frame
FrameCalls == {"display_image", "clear", "fd_clear", "fd_close_clear"}

\* the latest call sent a frame and returned
FrameSent == last_call[1] \in FrameCalls /\ ~last_call[2]

\* the bytes of the data transfers that follow the memory-write command
RECURSIVE PixelBytesFrom(_)
PixelBytesFrom(j) ==
    IF j > Len(wire) THEN <<>> ELSE wire[j][2] \o PixelBytesFrom(j + 1)

PixelBytes == PixelBytesFrom(WindowLen + 1)

\* C18: a call that returns has sent the image as it came when the image
\* has the panel's size, and a resized image of the panel's size otherwise;
\* in both cases width * height * 2 bytes of pixels.
Thm_C18 ==
    FrameSent =>
        /\ last_call[4] = <<lcd_width, lcd_height>>
        /\ Len(PixelBytes) = lcd_width * lcd_height * 2
        /\ SizeOf(last_call[3]) = <<lcd_width, lcd_height>> =>
              PixelBytes = ToBytes(last_call[3])

Wit_C18 ==
    /\ FrameSent
    /\ last_call[1] = "display_image"
    /\ SizeOf(last_call[3]) = <<1, 1>>
    /\ <<lcd_width, lcd_height>> = <<1, 2>>
    /\ Len(PixelBytes) = 4

\* the transfers w of one frame open with the window of the whole panel and
\* carry nothing but data after it
WindowThenData(w) ==
    LET x1 == lcd_width - 1
        y1 == lcd_height - 1
        opening == << <<0, <<42>>>>, <<1, <<0, 0, x1 \div 256, x1 % 256>>>>,
                      <<0, <<43>>>>, <<1, <<0, 0, y1 \div 256, y1 % 256>>>>,
                      <<0, <<44>>>> >>
    IN  /\ \A j \in 1..Len(w) : IF j <= 5 THEN w[j] = opening[j] ELSE w[j][1] = 1
        /\ \A j \in 1..Len(w) : \A i \in 1..Len(w[j][2]) : w[j][2][i] \in 0..255
        /\ Len(w) >= 4 =>
              /\ w[2][2][3] * 256 + w[2][2][4] = lcd_width - 1
              /\ w[4][2][3] * 256 + w[4][2][4] = lcd_height - 1

\* C19: the pixel data of a frame is preceded by 0x2A and (x0_hi, x0_lo,
\* x1_hi, x1_lo), 0x2B and (y0_hi, y0_lo, y1_hi, y1_lo), then 0x2C, with
\* x0 = y0 = 0, x1 = width - 1, y1 = height - 1; no command follows 0x2C
\* within the frame, and every byte transferred is in 0..255.
Thm_C19 == WindowThenData(transfers) /\ WindowThenData(wire)

Wit_C19 ==
    /\ frame_pc = "sent"
    /\ lcd_width = 2049
    /\ transfers[2] = <<1, <<0, 0, 8, 0>>>>
    /\ transfers[5] = <<0, <<44>>>>
    /\ Len(transfers) = 7

\* a backend the host can actually drive the lines with
GpiodUsable == gpiod_importable /\ chip_openable /\ lines_free
LegacyUsable == rpigpio_importable /\ rpigpio_usable

\* C20: construction fails at the GPIO stage only when neither gpiod nor
\* RPi.GPIO is usable (RPi.GPIO is the fallback when gpiod is not), and a
\* failed construction has sent no command and has left the backlight off.
Orig_C20 ==
    /\ lcd_pc = "failed" /\ ~lines_held => ~GpiodUsable /\ ~LegacyUsable
    /\ lcd_pc = "failed" => Len(InitXfers) = 0 /\ bl = 0

---------------------------------------------------------------------------
(* Claims on the loop's listening step, gestures and input mode            *)

\* C21: while the loop waits for input, the last face requested is
\* listening, the last servo gesture invoked is neutral and both arms are at
\* the neutral angle, whatever the earlier iterations did.
Thm_C21 ==
    pc = "lp_input" =>
        /\ FacesOf(log) # <<>> /\ Last(FacesOf(log)) = "listening"
        /\ ServosOf(log) # <<>> /\ Last(ServosOf(log)) = "neutral"
        /\ left_position = angles.neutral
        /\ right_position = angles.neutral

\* Waiting for console input after a turn that used the microphone and a
\* switch to text mode, the listening face not having been drawn.
Wit_C21 ==
    /\ pc = "lp_input"
    /\ listen_called /\ ~use_voice
    /\ current_expression # "listening"
    /\ left_position = 90 /\ right_position = 90

\* the faces, servo gestures, model call and speak calls of the iteration,
\* a speak call without its text
TurnTrace ==
    LET t == SelectSeq(log, LAMBDA e : e[1] \in {"face", "servo", "speak"} \/ e = Ev("ask"))
    IN  [i \in DOMAIN t |-> IF t[i][1] = "speak" THEN <<"speak">> ELSE t[i]]

\* what a normal turn with the given intent does, in order
TurnPlan(intent) ==
    << Face("listening"), Servo("neutral"), Face("thinking"), Servo("point"),
       Ev("ask"), Face("speaking") >>
    \o (IF intent = "Wave" THEN <<Servo("wave")>>
        ELSE IF intent = "Arms Up" THEN <<Servo("arms_up")>>
        ELSE IF intent = "Point" THEN <<Servo("point")>>
        ELSE <<>>)
    \o << <<"speak">>, Face("happy") >>
    \o (IF intent \in {"Wave", "Arms Up"} THEN <<>> ELSE <<Servo("arms_up")>>)

\* C22: in a normal turn the gestures after the listening neutral are point
\* between the thinking face and the model call, then the gesture of the
\* intent (if any) between the speaking face and speak, then arms_up after
\* the happy face unless the intent is Wave or Arms Up; the turn ends with
\* both arms at neutral for Wave and at the arms_up angle otherwise.
Thm_C22 ==
    NormalTurn =>
        /\ IsPrefix(TurnTrace, TurnPlan(gesture_name))
        /\ pc = "lp_cooldown" \/ Last(log) = Ev("cooldown") =>
              /\ TurnTrace = TurnPlan(gesture_name)
              /\ <<left_position, right_position>> =
                    IF gesture_name = "Wave"
                    THEN <<angles.neutral, angles.neutral>>
                    ELSE <<angles.arms_up, angles.arms_up>>

Wit_C22 ==
    /\ NormalTurn
    /\ Last(log) = Ev("cooldown")
    /\ gesture_name = "Point"
    /\ ServosOf(log) = <<"neutral", "point", "point", "arms_up">>
    /\ left_position = 45 /\ right_position = 45

---------------------------------------------------------------------------
(* Claims on FaceDisplay                                                   *)

FdFrameCalls == {"fd_set_expression", "fd_clear", "fd_close_clear"}

\* the latest FaceDisplay call wrote to the framebuffer or to the SPI panel
\* and the write failed
HardwareWriteFailed ==
    /\ fd_ret.op = "set_expression"
    /\ fd_ret.write = "failed"
    /\ Backend \in {"framebuffer", "spi"}

\* C23: a write that fails inside set_expression on the framebuffer or the
\* SPI panel is caught: the call returns False and current_expression keeps
\* the value it had, no set_expression call raises, and every later
\* set_expression or clear on the panel starts again from the window
\* commands and, when it completes, has sent the window and the whole frame.
Thm_C23 ==
    /\ HardwareWriteFailed =>
          fd_ret.result = "False" /\ current_expression = fd_ret.before
    /\ fd_ret.op = "set_expression" => fd_ret.result \in {"True", "False"}
    /\ last_call[1] \in FdFrameCalls =>
          /\ IsPrefix(wire, FrameTransfers(last_call[3]))
          /\ WindowThenData(wire)
          /\ ~last_call[2] =>
                /\ wire = FrameTransfers(last_call[3])
                /\ Len(PixelBytes) = lcd_width * lcd_height * 2

Wit_C23 ==
    /\ fd_ret.op = "set_expression"
    /\ fd_ret.prev_write = "failed"
    /\ fd_ret.write = "ok"
    /\ fd_ret.before = "None"
    /\ Backend = "spi"
    /\ last_call[1] = "fd_set_expression" /\ ~last_call[2]
    /\ Len(wire) > WindowLen

\* C29: current_expression is the expression of the latest set_expression
\* that returned True since the latest clear that succeeded, None when there
\* is none; a set_expression with an unknown name, with an image that is not
\* loaded or whose hardware write fails returns False and leaves it as it
\* was; a clear that succeeds sets it to None.
Thm_C29 ==
    /\ current_expression = fd_ret.shown
    /\ fd_ret.op = "set_expression" =>
          /\ \/ fd_ret.expression \notin EXPRESSIONS
             \/ ~fd_ret.loaded
             \/ HardwareWriteFailed
             => fd_ret.result = "False" /\ current_expression = fd_ret.before
          /\ fd_ret.result = "True" => current_expression = fd_ret.expression
    /\ fd_ret.op \in {"fd_clear", "fd_close_clear"} /\ fd_ret.write = "ok" =>
          current_expression = "None"

Wit_C29 ==
    /\ fd_ret.op = "set_expression"
    /\ fd_ret.expression = "error"
    /\ fd_ret.before = "happy"
    /\ fd_ret.result = "False"
    /\ fd_ret.loaded
    /\ HardwareWriteFailed
    /\ current_expression = "happy"

\* the input received is empty or only whitespace
NoInput == pc = "lp_dispatch" /\ Strip(user_input) = <<>>

\* the loop's `continue`: on to a new listening step, nothing else changes
ContinuesListening ==
    /\ pc' = "lp_face_listening"
    /\ log' = Append(log, Ev("continue_empty"))
    /\ UNCHANGED <<use_voice, running, left_position, right_position,
                   current_expression, spk_ret, gesture_name>>

\* C24: after an empty or whitespace-only input the loop continues with a
\* new listening step, unless a signal ends it: the iteration classifies
\* nothing, asks nothing, requests no thinking, speaking or happy face, has
\* no cooldown, and leaves the input mode as it was.
Thm_C24 ==
    /\ [][NoInput => ContinuesListening \/ loop_exit' = "SystemExit"]_vars
    /\ [](Ev("continue_empty") \in Range(log) =>
             /\ pc = "lp_face_listening"
             /\ Range(log) \cap {Ev("classify"), Ev("ask"), Ev("cooldown"),
                                 Face("thinking"), Face("speaking"), Face("happy")} = {}
             /\ \A j \in 1..Len(log) : log[j][1] # "speak"
             /\ FacesOf(log) = <<"listening">>)

Wit_C24 ==
    /\ pc = "lp_face_listening"
    /\ Last(log) = Ev("continue_empty")
    /\ user_input = <<" ">>
    /\ use_voice
    /\ Ev("listen") \in Range(log)

\* C27: voice input is used only when a microphone is available, at the
\* start of the loop and after any 'text' and 'voice' commands; 'voice'
\* without a microphone leaves the input mode as it was.
Thm_C27 ==
    /\ [](use_voice => microphone_available)
    /\ [][pc = "lp_dispatch" /\ Dispatch(user_input) = "voice" /\ ~microphone_available
             => use_voice' = use_voice]_vars

Wit_C27 ==
    /\ pc = "lp_face_listening"
    /\ Last(log) = Ev("continue_mode")
    /\ Dispatch(user_input) = "voice"
    /\ force_text_mode
    /\ microphone_available
    /\ use_voice

---------------------------------------------------------------------------
(* Claims on the driver's close and data/command line                      *)

\* C25: a close() on a driver that was closed before raises no error, does
\* nothing on the released SPI handle and GPIO lines, and leaves the driver
\* closed.  The code violates it: close() starts with _set_bl(0) on the
\* released line, which raises.
Orig_C25 ==
    last_call[1] = "close" /\ last_call[5] =>
        /\ ~last_call[2]
        /\ ~io_after_close
        /\ ~lines_held /\ ~spi_is_open

\* the transfers of construction that carry a command byte: 0x01, 0x11,
\* 0x3A, 0x36, 0x29; the fourth and the sixth carry their parameters
InitCommandAt == {1, 2, 3, 5, 7}

\* the transfers of a frame that carry a command byte: 0x2A, 0x2B, 0x2C
FrameCommandAt == {1, 3, 5}

CommandBytes ==
    { CMD_SWRESET, CMD_SLPOUT, CMD_DISPON, CMD_CASET, CMD_RASET, CMD_RAMWR,
      CMD_MADCTL, CMD_PIXFMT }

\* C26: every transfer of a command byte is made with DC low and every
\* transfer of data bytes with DC high, during construction and in every
\* frame; the pixel transfers that follow 0x2C are all made with DC high,
\* and the line is high when a frame has been sent.
Thm_C26 ==
    /\ \A j \in 1..Len(InitXfers) :
          /\ InitXfers[j][2] = IF j \in InitCommandAt THEN 0 ELSE 1
          /\ j \in InitCommandAt =>
                Len(InitXfers[j][3]) = 1 /\ InitXfers[j][3][1] \in CommandBytes
    /\ \A j \in 1..Len(wire) :
          /\ wire[j][1] = IF j \in FrameCommandAt THEN 0 ELSE 1
          /\ j \in FrameCommandAt =>
                Len(wire[j][2]) = 1 /\ wire[j][2][1] \in CommandBytes
    /\ lcd_pc = "on" /\ close_calls = 0 /\ wire = <<>> /\ last_call = <<"none">> => dc = 0
    /\ lines_held /\ wire # <<>> /\ ~last_call[2] =>
          /\ Len(wire) > WindowLen
          /\ wire[WindowLen] = Command(CMD_RAMWR)
          /\ dc = 1

Wit_C26 ==
    /\ last_call[1] = "display_image"
    /\ lines_held /\ ~last_call[2]
    /\ Len(InitXfers) = 7
    /\ Len(wire) = WindowLen + 1
    /\ wire[WindowLen + 1][1] = 1
    /\ Len(wire[WindowLen + 1][2]) = 4
    /\ dc = 1

---------------------------------------------------------------------------
(* Claims on the classifier's keywords                                     *)

Letters == { ToLower[c] : c \in DOMAIN ToLower }

\* w occurs in text as a whole word: no letter before it and none after it
OccursAsWord(w, text) ==
    \E i \in 1..(Len(text) - Len(w) + 1) :
        /\ SubSeq(text, i, i + Len(w) - 1) = w
        /\ i > 1 => text[i - 1] \notin Letters
        /\ i + Len(w) <= Len(text) => text[i + Len(w)] \notin Letters

HasGreetingWord(t) == \E w \in greeting_words : OccursAsWord(w, t)

HasCelebrationWord(t) == \E w \in celebration_words : OccursAsWord(w, t)

\* C28: greeting and celebration keywords count only as whole words: a text
\* with no greeting word is not tagged Wave, one with no celebration word is
\* not tagged Arms Up, so such a text is tagged Point when it starts with a
\* question keyword or contains '?', and gets no tag otherwise.  The code
\* violates it: it searches for the keywords as substrings, and "What is
\* this?" is tagged Wave for the "hi" in "this".
Orig_C28 ==
    g_result # "pending" =>
        LET t == Lower(g_input) IN
        /\ ~HasGreetingWord(t) => g_result # "Wave"
        /\ ~HasCelebrationWord(t) => g_result # "Arms Up"
        /\ ~HasGreetingWord(t) /\ ~HasCelebrationWord(t) =>
              g_result = IF HasQuestion(t) THEN "Point" ELSE "None"

---------------------------------------------------------------------------
(* Claims on the servo controller                                          *)

\* the moves of the latest operation
ServoMoves == SelectSeq(log, LAMBDA e : e[1] = "move")

\* angle = current_angle + (target_angle - current_angle) * (i / steps) for
\* the write number i + 1 of a smooth move; the clamped angle otherwise
WrittenAngle(m, i) ==
    IF m[5] THEN m[3] + ((m[4] - m[3]) * i) \div m[6] ELSE m[4]

\* every angle handed to a servo by the latest operation
WrittenAngles ==
    UNION { { WrittenAngle(ServoMoves[j], i) : i \in 0..(ServoMoves[j][7] - 1) } :
            j \in 1..Len(ServoMoves) }

\* C30: after any operations of the controller both positions are within
\* 0..180 and so is every angle written to a servo; set_arm_angle with an
\* arm other than 'left' and 'right' returns False, writes nothing and
\* changes neither position; a wave(n), n >= 0, that returns leaves both
\* arms at the neutral angle.
Thm_C30 ==
    /\ left_position \in 0..180
    /\ right_position \in 0..180
    /\ WrittenAngles \subseteq 0..180
    /\ log # <<>> =>
          /\ log[1][2] = "set_arm_angle" /\ log[1][3][1] \notin {"left", "right"} =>
                /\ Last(log) = <<"ret", "False">>
                /\ ServoMoves = <<>>
                /\ <<left_position, right_position>> = log[1][4]
          /\ log[1][2] = "set_arm_angle" /\ log[1][3][1] \in {"left", "right"}
                /\ Last(log) = <<"ret", "True">> =>
                (IF log[1][3][1] = "left" THEN left_position ELSE right_position)
                    = ClampAngle(log[1][3][2])
          /\ log[1][2] = "wave" /\ Last(log) # <<"ret", "raised">> =>
                /\ left_position = angles.neutral
                /\ right_position = angles.neutral

Wit_C30 ==
    /\ servo_hw
    /\ log # <<>>
    /\ log[1] = <<"call", "set_arm_angle", <<"right", 180 + MaxOvershoot, TRUE>>, <<90, 0>> >>
    /\ Last(log) = <<"ret", "True">>
    /\ right_position = 180
    /\ 180 \in WrittenAngles /\ 1 \in WrittenAngles
    /\ left_position = 90

===========================================================================
